---- MODULE Spec2Model ----
(***************************************************************************)
(* Image inventory and certification-refresh engine of the                 *)
(* imagecertinfo-operator: the pod reconciler, the certification           *)
(* write-back, the stale-reference sweeper and the refresh scheduler,      *)
(* acting on a record store with optimistic concurrency; the Docker Hub    *)
(* client behind its cache and its rate limiter; and the functions of the  *)
(* image package and the comparison of health grades, called on their own. *)
(*                                                                         *)
(* Go strings that the code takes apart (image identifiers, registry       *)
(* names, record names) are sequences of one-character strings.  A Go      *)
(* pointer is a sequence of length at most one: <<>> is nil.  Time is      *)
(* counted in clock ticks of an hour.                                      *)
(***************************************************************************)
EXTENDS Integers, Sequences, FiniteSets, TLC

(* ------------------------------ bounds --------------------------------- *)

\* Last value of the clock.
MaxTime == 1

\* Reconcile passes that start.
MaxPasses == 2

\* Sweeps that start.
MaxSweeps == 1

\* Refresh cycles that start.
MaxCycles == 1

\* Reconcile passes that start in a run with refresh cycles.
MaxRefreshPasses == 1

\* Last value of the clock in a run with refresh cycles.
MaxRefreshTime == 3

\* Calls to the API server that fail for a reason of the transport.
MaxFaults == 1

\* Pod creations, deletions and phase changes.
MaxPodEvents == 1

\* Goroutines that call the Docker Hub client chain.
NumCallers == 2

\* Calls of the Docker Hub client chain that start.
MaxLookups == 3

\* Sweeps of the cache that start.
MaxCleanups == 1

\* Last value of the clock in a run of the Docker Hub client chain.
MaxHubTime == 3

\* Reconcile passes that start in a run with calls of the parser.
MaxParsePasses == 1

(* --------------------------- string helpers ---------------------------- *)

LowerChars ==
    <<"a","b","c","d","e","f","g","h","i","j","k","l","m","n","o","p","q","r","s","t","u","v","w","x","y","z">>

UpperChars ==
    <<"A","B","C","D","E","F","G","H","I","J","K","L","M","N","O","P","Q","R","S","T","U","V","W","X","Y","Z">>

DigitChars ==
    <<"0","1","2","3","4","5","6","7","8","9">>

\* strings.HasPrefix
HasPrefix(s, p) ==
    /\ Len(s) >= Len(p)
    /\ SubSeq(s, 1, Len(p)) = p

\* strings.HasSuffix
HasSuffix(s, p) ==
    /\ Len(s) >= Len(p)
    /\ SubSeq(s, Len(s) - Len(p) + 1, Len(s)) = p

\* strings.TrimPrefix
TrimPrefix(s, p) ==
    IF HasPrefix(s, p) THEN SubSeq(s, Len(p) + 1, Len(s)) ELSE s

\* strings.Contains for a one-character needle
ContainsChar(s, c) == \E i \in 1..Len(s) : s[i] = c

\* strings.Index for a one-character needle; 0 when absent (Go: -1)
IndexChar(s, c) ==
    IF ContainsChar(s, c)
    THEN CHOOSE i \in 1..Len(s) : s[i] = c /\ \A j \in 1..(i - 1) : s[j] # c
    ELSE 0

\* strings.LastIndex for a one-character needle; 0 when absent (Go: -1)
LastIndexChar(s, c) ==
    IF ContainsChar(s, c)
    THEN CHOOSE i \in 1..Len(s) : s[i] = c /\ \A j \in (i + 1)..Len(s) : s[j] # c
    ELSE 0

\* Number of occurrences of a character: len(strings.Split(s, c)) - 1
CountChar(s, c) == Cardinality({i \in 1..Len(s) : s[i] = c})

\* strings.ReplaceAll for one-character old and new
ReplaceAllChar(s, old, new) ==
    [i \in 1..Len(s) |-> IF s[i] = old THEN new ELSE s[i]]

\* strings.ToLower (ASCII)
ToLower(s) ==
    LET lower(c) ==
            IF \E i \in 1..Len(UpperChars) : UpperChars[i] = c
            THEN LowerChars[CHOOSE i \in 1..Len(UpperChars) : UpperChars[i] = c]
            ELSE c
    IN  [i \in 1..Len(s) |-> lower(s[i])]

\* strings.Trim(s, cutset)
RECURSIVE TrimLeft(_, _)
TrimLeft(s, cutset) ==
    IF Len(s) > 0 /\ s[1] \in cutset THEN TrimLeft(Tail(s), cutset) ELSE s

RECURSIVE TrimRight(_, _)
TrimRight(s, cutset) ==
    IF Len(s) > 0 /\ s[Len(s)] \in cutset
    THEN TrimRight(SubSeq(s, 1, Len(s) - 1), cutset)
    ELSE s

Trim(s, cutset) == TrimRight(TrimLeft(s, cutset), cutset)

(* ------------------------- pkg/image/parser.go ------------------------- *)

PrefixDockerPullable ==
    <<"d","o","c","k","e","r","-","p","u","l","l","a","b","l","e",":","/","/">>

PrefixDocker ==
    <<"d","o","c","k","e","r",":","/","/">>

Sha256Prefix ==
    <<"s","h","a","2","5","6",":">>

DockerIO ==
    <<"d","o","c","k","e","r",".","i","o">>

Localhost ==
    <<"l","o","c","a","l","h","o","s","t">>

\* ClassifyRegistry: the Red Hat registries.
redHatRegistries ==
    {
     \* registry.redhat.io
     <<"r","e","g","i","s","t","r","y",".","r","e","d","h","a","t",".","i","o">>,
     \* registry.access.redhat.com
     <<"r","e","g","i","s","t","r","y",".","a","c","c","e","s","s",".","r","e","d","h","a","t",".","c","o","m">>,
     \* registry.connect.redhat.com
     <<"r","e","g","i","s","t","r","y",".","c","o","n","n","e","c","t",".","r","e","d","h","a","t",".","c","o","m">>}

\* ClassifyRegistry: the community registries.
communityRegistries ==
    {DockerIO,
     \* ghcr.io
     <<"g","h","c","r",".","i","o">>,
     \* gcr.io
     <<"g","c","r",".","i","o">>,
     \* registry.k8s.io
     <<"r","e","g","i","s","t","r","y",".","k","8","s",".","i","o">>,
     \* k8s.gcr.io
     <<"k","8","s",".","g","c","r",".","i","o">>}

\* A parser that knows the docker:// prefix only.
StripsDockerOnly(imageID) == TrimPrefix(imageID, PrefixDocker)

\* The imageID with the docker-pullable:// and docker:// prefixes removed.
StripScheme(imageID) ==
    TrimPrefix(TrimPrefix(imageID, PrefixDockerPullable), PrefixDocker)

\* A parser that fails on the empty imageID only.
ParseFailsOnEmpty(imageID) == imageID = <<>>

\* ParseImageID fails: empty input, or not exactly one "@".
ParseFails(imageID) ==
    \/ imageID = <<>>
    \/ CountChar(StripScheme(imageID), "@") # 1

\* ParseImageID, for an imageID on which it does not fail.
ParseImageID(imageID) ==
    LET id == StripScheme(imageID)
        at == IndexChar(id, "@")
        digest == SubSeq(id, at + 1, Len(id))
        withTag == SubSeq(id, 1, at - 1)
        colonIdx == LastIndexChar(withTag, ":")
        afterColon == SubSeq(withTag, colonIdx + 1, Len(withTag))
        hasTag == colonIdx # 0 /\ ~ContainsChar(afterColon, "/")
        tag == IF hasTag THEN afterColon ELSE <<>>
        img == IF hasTag THEN SubSeq(withTag, 1, colonIdx - 1) ELSE withTag
        slash == IndexChar(img, "/")
        before == SubSeq(img, 1, slash - 1)
        after == SubSeq(img, slash + 1, Len(img))
        isRegistry ==
            \/ ContainsChar(before, ".")
            \/ ContainsChar(before, ":")
            \/ before = Localhost
    IN  [Registry |-> IF slash # 0 /\ isRegistry THEN before ELSE DockerIO,
         Repository |->
            \* library/
            IF slash = 0 THEN <<"l","i","b","r","a","r","y","/">> \o img
            ELSE IF isRegistry THEN after ELSE img,
         Tag |-> tag,
         Digest |-> digest,
         FullReference |-> id]

\* sanitizeK8sName
sanitizeK8sName(name) ==
    LET keep(i) ==
            LET r == name[i]
            IN  IF ContainsChar(LowerChars \o DigitChars \o <<".", "-">>, r)
                THEN <<r>>
                ELSE IF r \in {"_", "/"} THEN <<".">>
                ELSE IF i > 1 /\ i < Len(name) THEN <<"-">>
                ELSE <<>>
        build[i \in 0..Len(name)] ==
            IF i = 0 THEN <<>> ELSE build[i - 1] \o keep(i)
    IN  Trim(build[Len(name)], {".", "-"})

\* ReferenceToCRName with the tag in the name.
ReferenceToCRNameTagged(ref) ==
    LET base == ReplaceAllChar(ref.Registry \o <<".">> \o ref.Repository, "/", ".")
        trimmed == TrimPrefix(ref.Digest, Sha256Prefix)
        shortDigest ==
            IF HasPrefix(ref.Digest, Sha256Prefix)
            THEN (IF Len(trimmed) > 8 THEN SubSeq(trimmed, 1, 8) ELSE trimmed)
            ELSE ref.Digest
        name == sanitizeK8sName(ToLower(base \o <<".">> \o ref.Tag
                                           \o <<".">> \o shortDigest))
    IN  IF Len(name) > 253 THEN SubSeq(name, 1, 253) ELSE name

\* ReferenceToCRName with the digest left whole.
ReferenceToCRNameUncut(ref) ==
    LET base == ReplaceAllChar(ref.Registry \o <<".">> \o ref.Repository, "/", ".")
        name == sanitizeK8sName(ToLower(base \o <<".">>
                                   \o TrimPrefix(ref.Digest, Sha256Prefix)))
    IN  IF Len(name) > 253 THEN SubSeq(name, 1, 253) ELSE name

\* ReferenceToCRName
ReferenceToCRName(ref) ==
    LET base == ReplaceAllChar(ref.Registry \o <<".">> \o ref.Repository, "/", ".")
        trimmed == TrimPrefix(ref.Digest, Sha256Prefix)
        shortDigest ==
            IF HasPrefix(ref.Digest, Sha256Prefix)
            THEN (IF Len(trimmed) > 8 THEN SubSeq(trimmed, 1, 8) ELSE trimmed)
            ELSE ref.Digest
        name == sanitizeK8sName(ToLower(base \o <<".">> \o shortDigest))
    IN  IF Len(name) > 253 THEN SubSeq(name, 1, 253) ELSE name

\* ClassifyRegistry
ClassifyRegistry(registry) ==
    LET r == ToLower(registry)
    IN  IF r \in redHatRegistries THEN "RedHat"
        \* quay.io
        ELSE IF r = <<"q","u","a","y",".","i","o">>
        THEN "Partner"
        ELSE IF r \in communityRegistries THEN "Community"
        \* the suffixes .local and .internal, localhost and localhost:
        ELSE IF \/ HasSuffix(r, <<".","l","o","c","a","l">>)
                \/ HasSuffix(r, <<".","i","n","t","e","r","n","a","l">>)
                \/ r = Localhost
                \/ HasPrefix(r, <<"l","o","c","a","l","h","o","s","t",":">>)
        THEN "Private"
        ELSE "Unknown"

\* IsRedHatRegistry
IsRedHatRegistry(registry) == ClassifyRegistry(registry) = "RedHat"

(* ------------------------------ universe ------------------------------- *)

ImgUbi ==
    <<"d","o","c","k","e","r","-","p","u","l","l","a","b","l","e",":","/","/","r","e","g","i","s","t","r","y",".","r","e","d","h","a","t",".","i","o","/","u","b","i","8","/","u","b","i","@","s","h","a","2","5","6",":","a","b","c","1","2","3","d","e","0","1","2","3","4","5","6","7","8","9","a","b","c","d","e","f","0","1","2","3","4","5","6","7","8","9","a","b","c","d","e","f","0","1","2","3","4","5","6","7","8","9","a","b","c","d","e","f","0","1","2","3","4","5","6","7">>

ImgUbiTwin ==
    <<"r","e","g","i","s","t","r","y",".","r","e","d","h","a","t",".","i","o","/","u","b","i","8","/","u","b","i",":","l","a","t","e","s","t","@","s","h","a","2","5","6",":","a","b","c","1","2","3","d","e","f","e","d","c","b","a","9","8","7","6","5","4","3","2","1","0","f","e","d","c","b","a","9","8","7","6","5","4","3","2","1","0","f","e","d","c","b","a","9","8","7","6","5","4","3","2","1","0","7","6","5","4","3","2","1","0">>

ImgQuay ==
    <<"q","u","a","y",".","i","o","/","a","p","p","@","s","h","a","2","5","6",":","0","0","1","1","2","2","3","3","4","4","5","5","6","6","7","7","8","8","9","9","a","a","b","b","c","c","d","d","e","e","f","f","4","4","5","5","6","6","7","7","8","8","9","9","a","a","b","b","c","c","d","d","e","e","f","f","0","0","1","1","2","2","3","3">>

ImgNoDigest ==
    <<"n","g","i","n","x",":","l","a","t","e","s","t">>

PodA == [Namespace |-> "default", Name |-> "pod-a"]

PodB == [Namespace |-> "prod", Name |-> "pod-b"]

PodKeys == {PodA, PodB}

\* pod.Status.ContainerStatuses of each pod (name and imageID).
ContainerStatuses(p) ==
    IF p = PodA
    THEN <<[Name |-> "main", ImageID |-> ImgUbi]>>
    ELSE <<[Name |-> "web", ImageID |-> ImgNoDigest],
           [Name |-> "app", ImageID |-> ImgQuay],
           [Name |-> "sidecar", ImageID |-> ImgQuay]>>

\* pod.Status.InitContainerStatuses of each pod.
InitContainerStatuses(p) ==
    IF p = PodA
    THEN <<[Name |-> "setup", ImageID |-> <<>>]>>
    ELSE <<[Name |-> "init", ImageID |-> ImgUbiTwin]>>

\* Every imageID a container status of the universe carries.
ImageIDs ==
    UNION {{AllOf[i].ImageID : i \in 1..Len(AllOf)} :
              AllOf \in {ContainerStatuses(p) \o InitContainerStatuses(p) :
                            p \in PodKeys}}

\* image.ParseImageID on the imageIDs it accepts.
ParsedImages ==
    [id \in {x \in ImageIDs : ~ParseFails(x)} |-> ParseImageID(id)]

\* image.ReferenceToCRName of the parsed reference of an imageID.
RecordNames ==
    [id \in DOMAIN ParsedImages |-> ReferenceToCRName(ParsedImages[id])]

Phases == {"Pending", "Running", "Succeeded", "Failed", "Unknown"}

\* Certification data without CVE identifiers.
PlainData ==
    {[Publisher |-> "Red Hat, Inc.", HealthIndex |-> "A",
      PublishedAt |-> <<[ok |-> TRUE, t |-> 0]>>,
      EOLDate |-> <<[ok |-> TRUE, t |-> 60]>>,
      Vulnerabilities |-> <<>>, CVEs |-> <<>>]}

\* Certification data with CVE identifiers.
CVEData ==
    {[Publisher |-> "", HealthIndex |-> "B",
      PublishedAt |-> <<>>, EOLDate |-> <<>>,
      Vulnerabilities |-> <<[Critical |-> 1, Important |-> 3,
                             Moderate |-> 5, Low |-> 10]>>,
      CVEs |-> <<"CVE-2024-0001">>]}

(* ------------------------------- state --------------------------------- *)

VARIABLES
    clock,      \* time.Now(), in ticks
    pods,       \* the cluster's pods: phase of each pod, or "absent"
    store,      \* ImageCertificationInfo objects in the API server, by name
    rec,        \* the reconcile worker: position and locals of Reconcile
    tasks,      \* goroutines running checkPyxisCertification, by record name
    sweeper,    \* CleanupStaleReferences: position and locals
    refresher,  \* the refresh cycle: position and locals
    budget,     \* operations still allowed to start
    cache,      \* CachedClient.cache: the entry of each cache key
    limiter,    \* the rate.Limiter of the RateLimitedClient
    callers,    \* callers of GetRepositoryInfo: position and locals
    wrapped,    \* invocations of the clients the decorators wrap, counted
    probe,      \* a call of a function without state, and what it returned
    loops       \* the background loops: position of each, and ctx.Done()

\* The state of the Docker Hub client chain.
dockerhub == <<cache, limiter, callers, wrapped>>

\* The state of the pod controller.
controller == <<pods, store, rec, tasks, sweeper, refresher>>

vars == <<clock, controller, budget, dockerhub, probe, loops>>

(* ---------------- the API server (controller-runtime client) ----------- *)

\* Outcomes of a call that may fail for a reason of the transport.
Transport == {"ok", "error"}

\* The object as r.Create stores it: spec only, status empty.
NewObject(crName, ref) ==
    [name |-> crName,
     rv |-> 1,
     annotations |-> <<>>,
     spec |-> [ImageDigest |-> ref.Digest,
               FullImageReference |-> ref.FullReference,
               Registry |-> ref.Registry,
               Repository |-> ref.Repository,
               Tag |-> ref.Tag],
     status |-> [RegistryType |-> "",
                 CertificationStatus |-> "",
                 PyxisData |-> <<>>,
                 PodReferences |-> <<>>,
                 FirstSeenAt |-> <<>>,
                 LastSeenAt |-> <<>>,
                 LastPyxisCheckAt |-> <<>>,
                 ImageAge |-> "",
                 DaysUntilEOL |-> <<>>,
                 Conditions |-> <<>>]]

\* r.Get on a record finds it.
Exists(crName) == crName \in DOMAIN store

\* A store that takes a write of any copy of a record it holds.
AcceptsStale(cr) == cr.name \in DOMAIN store

\* The API server accepts an update made from the copy cr: the copy carries
\* the resourceVersion the stored object has now.
Accepts(cr) == Exists(cr.name) /\ store[cr.name].rv = cr.rv

\* The status as the API server stores it: registryType and
\* certificationStatus are omitempty and carry +kubebuilder:default=Unknown,
\* so a status written with either of them empty is stored with Unknown.
Defaulted(status) ==
    [status EXCEPT
        !.RegistryType = IF @ = "" THEN "Unknown" ELSE @,
        !.CertificationStatus = IF @ = "" THEN "Unknown" ELSE @]

\* A status write that removes a record left without pod references.
StatusUpdatedOrPruned(cr) ==
    IF cr.status.PodReferences = <<>>
    THEN [k \in DOMAIN store \ {cr.name} |-> store[k]]
    ELSE [store EXCEPT ![cr.name] =
             [@ EXCEPT !.status = Defaulted(cr.status), !.rv = @ + 1]]

\* r.Status().Update(cr), accepted: only the status is taken from cr, with
\* the defaults of the CRD filled in.
StatusUpdated(cr) ==
    [store EXCEPT ![cr.name] =
        [@ EXCEPT !.status = Defaulted(cr.status), !.rv = @ + 1]]

\* r.Update(cr), accepted: everything but the status is taken from cr.
ObjectUpdated(cr) ==
    [store EXCEPT ![cr.name] =
        [@ EXCEPT !.annotations = cr.annotations, !.spec = cr.spec,
                  !.rv = @ + 1]]

(* ----------------------- PodReconciler.Reconcile ----------------------- *)

\* SetupWithManager sets no controller options: one reconcile at a time.
MaxConcurrentReconciles == 1

Workers == 1..MaxConcurrentReconciles

\* r.PyxisClient != nil (main wires a client in).
PyxisClientSet == TRUE

\* r.Recorder != nil (main wires the manager's event recorder in).
RecorderSet == TRUE

\* A call to the API server may end with tr.
Allowed(tr) == tr = "error" => budget.faults > 0

\* The budget after a call that ended with tr.
Charged(tr) ==
    IF tr = "error" THEN [budget EXCEPT !.faults = @ - 1] ELSE budget

\* allStatuses: the container statuses followed by the init container ones.
AllStatuses(p) == ContainerStatuses(p) \o InitContainerStatuses(p)

\* The worker between two passes.
IdleWorker ==
    [pc |-> "idle", req |-> <<>>, podRead |-> "", idx |-> 0,
     cr |-> <<>>, now |-> 0, log |-> <<>>, result |-> ""]

\* Reconcile returns result: podRead tells how the read of the pod ended,
\* log what the loop did with each container status.
Returned(req, podRead, log, result) ==
    [pc |-> "return", req |-> req, podRead |-> podRead, idx |-> 0,
     cr |-> <<>>, now |-> 0, log |-> log, result |-> result]

\* A phase check that lets a pod of unknown phase through.
SkipsEndedPod(phase) == phase \in {"Succeeded", "Failed"}

\* Reconcile skips a pod of this phase.
SkipsPhase(phase) == phase # "Running" /\ phase # "Pending"

\* The container status the worker is at, its reference and record name.
CurStatus(w) == AllStatuses(rec[w].req[1])[rec[w].idx]

CurRef(w) == ParsedImages[CurStatus(w).ImageID]

CurName(w) == RecordNames[CurStatus(w).ImageID]

CurPodRef(w) ==
    [Namespace |-> rec[w].req[1].Namespace,
     Name |-> rec[w].req[1].Name,
     Container |-> CurStatus(w).Name]

\* A loop that returns the error of a container instead of going on.
AdvanceOrFail(w, entry) ==
    LET r == rec[w]
    IN  IF entry \in {"get-error", "create-error", "status-error", "update-error"}
        THEN Returned(r.req, r.podRead, Append(r.log, entry), "error")
        ELSE IF r.idx = Len(AllStatuses(r.req[1]))
        THEN Returned(r.req, r.podRead, Append(r.log, entry), "success")
        ELSE [r EXCEPT !.pc = "container", !.idx = @ + 1, !.cr = <<>>,
                       !.now = 0, !.log = Append(@, entry)]

\* A pass that calls the lookup of a record it created instead of
\* starting it: the pass is in the lookup until the lookup returns.
AdvanceAfterLookup(w, entry) ==
    LET r == rec[w]
    IN  IF entry = "created"
        THEN [r EXCEPT !.pc = "lookup", !.log = Append(@, entry)]
        ELSE IF r.idx = Len(AllStatuses(r.req[1]))
        THEN Returned(r.req, r.podRead, Append(r.log, entry), "success")
        ELSE [r EXCEPT !.pc = "container", !.idx = @ + 1, !.cr = <<>>,
                       !.now = 0, !.log = Append(@, entry)]

\* The loop goes on with the next container status, or the pass returns.
Advance(w, entry) ==
    LET r == rec[w]
    IN  IF r.idx = Len(AllStatuses(r.req[1]))
        THEN Returned(r.req, r.podRead, Append(r.log, entry), "success")
        ELSE [r EXCEPT !.pc = "container", !.idx = @ + 1, !.cr = <<>>,
                       !.now = 0, !.log = Append(@, entry)]

\* Reconcile up to the loop: r.Get of the pod, and the phase check.
ReconcileGetPod(w, p, tr) ==
    /\ rec[w].pc = "idle"
    /\ budget.passes > 0
    /\ \A v \in Workers : rec[v].req # <<p>>
    /\ Allowed(tr)
    /\ budget' = [Charged(tr) EXCEPT !.passes = @ - 1]
    /\ rec' = [rec EXCEPT ![w] =
          IF tr = "error"
          THEN Returned(<<p>>, "error", <<>>, "error")
          ELSE IF pods[p] = "absent"
          THEN Returned(<<p>>, "notfound", <<>>, "success")
          ELSE IF SkipsPhase(pods[p])
          THEN Returned(<<p>>, "skipped", <<>>, "success")
          ELSE IF Len(AllStatuses(p)) = 0
          THEN Returned(<<p>>, "ok", <<>>, "success")
          ELSE [pc |-> "container", req |-> <<p>>, podRead |-> "ok",
                idx |-> 1, cr |-> <<>>, now |-> 0, log |-> <<>>,
                result |-> ""]]
    /\ UNCHANGED <<clock, pods, store, tasks, sweeper, refresher, dockerhub, probe, loops>>

\* The controller takes the result; the worker is free for the next request.
ReconcileReturn(w) ==
    /\ rec[w].pc = "return"
    /\ rec' = [rec EXCEPT ![w] = IdleWorker]
    /\ UNCHANGED <<clock, pods, store, tasks, sweeper, refresher, budget,
                 dockerhub, probe, loops>>

\* One turn of the loop up to r.Get of the record.
ReconcileContainer(w, tr) ==
    /\ rec[w].pc = "container"
    /\ CurStatus(w).ImageID \notin DOMAIN ParsedImages => tr = "ok"
    /\ Allowed(tr)
    /\ budget' = Charged(tr)
    /\ rec' = [rec EXCEPT ![w] =
          IF CurStatus(w).ImageID = <<>>
          THEN Advance(w, "no-image")
          ELSE IF CurStatus(w).ImageID \notin DOMAIN ParsedImages
          THEN Advance(w, "unparseable")
          ELSE IF tr = "error"
          THEN Advance(w, "get-error")
          ELSE IF ~Exists(CurName(w))
          THEN [@ EXCEPT !.pc = "create", !.now = clock]
          ELSE [@ EXCEPT !.pc = "update", !.now = clock,
                         !.cr = <<store[CurName(w)]>>]]
    /\ UNCHANGED <<clock, pods, store, tasks, sweeper, refresher, dockerhub, probe, loops>>

\* createImageCertificationInfo up to r.Create.
ReconcileCreate(w, tr) ==
    /\ Allowed(tr)
    /\ budget' = Charged(tr)
    /\ rec[w].pc = "create"
    /\ IF tr = "error" \/ Exists(CurName(w))
       THEN /\ rec' = [rec EXCEPT ![w] = Advance(w, "create-error")]
            /\ UNCHANGED store
       ELSE /\ store' = store @@ (CurName(w) :> NewObject(CurName(w), CurRef(w)))
            /\ rec' = [rec EXCEPT ![w] =
                  [@ EXCEPT !.pc = "status",
                            !.cr = <<NewObject(CurName(w), CurRef(w))>>]]
    /\ UNCHANGED <<clock, pods, tasks, sweeper, refresher, dockerhub, probe, loops>>

\* The status createImageCertificationInfo writes for a new record.
InitialStatus(ref, podRef, now) ==
    [RegistryType |-> ClassifyRegistry(ref.Registry),
     CertificationStatus |-> "Unknown",
     PyxisData |-> <<>>,
     PodReferences |-> <<podRef>>,
     FirstSeenAt |-> <<now>>,
     LastSeenAt |-> <<now>>,
     LastPyxisCheckAt |-> <<>>,
     ImageAge |-> "",
     DaysUntilEOL |-> <<>>,
     Conditions |-> <<"Available">>]

\* A goroutine at the start of checkPyxisCertification.
NewTask(crName, ref) ==
    [pc |-> "lookup", crName |-> crName, ref |-> ref, certData |-> <<>>,
     err |-> FALSE, cr |-> <<>>, events |-> {}]

\* A discovery that starts a lookup whatever the registry.
StartsLookupAnywhere(registry) == PyxisClientSet

\* The discovery of a record of this registry starts a lookup.
StartsLookup(registry) == PyxisClientSet /\ IsRedHatRegistry(registry)

\* createImageCertificationInfo starting the lookup whether or not its
\* status write was accepted.
ReconcileInitStatusThenLookup(w, tr) ==
    /\ Allowed(tr)
    /\ budget' = Charged(tr)
    /\ rec[w].pc = "status"
    /\ LET cr == [rec[w].cr[1] EXCEPT
                    !.status = InitialStatus(CurRef(w), CurPodRef(w), rec[w].now)]
       IN  /\ IF tr = "ok" /\ Accepts(cr)
              THEN /\ store' = StatusUpdated(cr)
                   /\ rec' = [rec EXCEPT ![w] = Advance(w, "created")]
              ELSE /\ rec' = [rec EXCEPT ![w] = Advance(w, "status-error")]
                   /\ UNCHANGED store
           /\ tasks' =
                 IF StartsLookup(CurRef(w).Registry)
                 THEN tasks @@ (CurName(w) :> NewTask(CurName(w), CurRef(w)))
                 ELSE tasks
    /\ UNCHANGED <<clock, pods, sweeper, refresher, dockerhub, probe, loops>>

\* createImageCertificationInfo from the status write to its return.
ReconcileInitStatus(w, tr) ==
    /\ Allowed(tr)
    /\ budget' = Charged(tr)
    /\ rec[w].pc = "status"
    /\ LET cr == [rec[w].cr[1] EXCEPT
                    !.status = InitialStatus(CurRef(w), CurPodRef(w), rec[w].now)]
       IN  IF tr = "ok" /\ Accepts(cr)
           THEN /\ store' = StatusUpdated(cr)
                /\ rec' = [rec EXCEPT ![w] = Advance(w, "created")]
                /\ tasks' =
                      IF StartsLookup(CurRef(w).Registry)
                      THEN tasks @@ (CurName(w) :> NewTask(CurName(w), CurRef(w)))
                      ELSE tasks
           ELSE /\ rec' = [rec EXCEPT ![w] = Advance(w, "status-error")]
                /\ UNCHANGED <<store, tasks>>
    /\ UNCHANGED <<clock, pods, sweeper, refresher, dockerhub, probe, loops>>

\* The reference is in the list already (triple equality).
Tracked(refs, podRef) ==
    \E i \in 1..Len(refs) :
        /\ refs[i].Namespace = podRef.Namespace
        /\ refs[i].Name = podRef.Name
        /\ refs[i].Container = podRef.Container

\* updatePodReferences without the search for the reference.
AlwaysAppendsReference(status, podRef, now) ==
    [status EXCEPT !.PodReferences = Append(@, podRef),
                   !.LastSeenAt = <<now>>]

\* updatePodReferences that only sets the last-seen time.
WithLastSeenOnly(status, podRef, now) == [status EXCEPT !.LastSeenAt = <<now>>]

\* The status updatePodReferences writes.
WithPodReference(status, podRef, now) ==
    IF Tracked(status.PodReferences, podRef)
    THEN [status EXCEPT !.LastSeenAt = <<now>>]
    ELSE [status EXCEPT !.PodReferences = Append(@, podRef),
                        !.LastSeenAt = <<now>>]

\* updatePodReferences: the status write on the record Reconcile has read.
ReconcileUpdateRefs(w, tr) ==
    /\ Allowed(tr)
    /\ budget' = Charged(tr)
    /\ rec[w].pc = "update"
    /\ LET cr == [rec[w].cr[1] EXCEPT
                    !.status = WithPodReference(@, CurPodRef(w), rec[w].now)]
       IN  IF tr = "ok" /\ Accepts(cr)
           THEN /\ store' = StatusUpdated(cr)
                /\ rec' = [rec EXCEPT ![w] = Advance(w, "updated")]
           ELSE /\ rec' = [rec EXCEPT ![w] = Advance(w, "update-error")]
                /\ UNCHANGED store
    /\ UNCHANGED <<clock, pods, tasks, sweeper, refresher, dockerhub, probe, loops>>

(* ------------------ PodReconciler.checkPyxisCertification -------------- *)

\* Clock ticks in a day: a tick is an hour (d.Hours() / 24).
TicksPerDay == 24

\* Integer conversion of a quotient: int(x / y) truncates toward zero.
TruncDiv(a, b) == IF a >= 0 THEN a \div b ELSE -((-a) \div b)

\* time.Parse of a timestamp of the certification data: nil when the
\* string is empty or does not parse.
ParseTime(s) == IF s = <<>> \/ ~s[1].ok THEN <<>> ELSE <<s[1].t>>

\* strings.Join(elems, ",")
RECURSIVE Join(_)
Join(elems) ==
    IF Len(elems) = 0 THEN ""
    ELSE IF Len(elems) = 1 THEN elems[1]
    ELSE elems[1] \o "," \o Join(Tail(elems))

\* formatDuration, of a duration in ticks
formatDuration(d) ==
    LET days == TruncDiv(d, TicksPerDay)
        months == days \div 30
        years == months \div 12
        remainingMonths == months % 12
    IN  IF days < 1 THEN "less than a day"
        ELSE IF days = 1 THEN "1 day"
        ELSE IF days < 30 THEN ToString(days) \o " days"
        ELSE IF months = 1 THEN "1 month"
        ELSE IF months < 12 THEN ToString(months) \o " months"
        ELSE IF years = 1
        THEN (IF remainingMonths = 0 THEN "1 year"
              ELSE "1 year " \o ToString(remainingMonths) \o " months")
        ELSE IF remainingMonths = 0 THEN ToString(years) \o " years"
        ELSE ToString(years) \o " years " \o ToString(remainingMonths) \o " months"

\* The PyxisData the write-back builds from the certification data.
PyxisDataOf(d) ==
    [Publisher |-> d.Publisher,
     HealthIndex |-> d.HealthIndex,
     PublishedAt |-> ParseTime(d.PublishedAt),
     Vulnerabilities |-> d.Vulnerabilities,
     EOLDate |-> ParseTime(d.EOLDate)]

\* A write-back that keeps Certified when a later lookup finds nothing.
StatusKeptOnAbsent(old, certData, err) ==
    IF err THEN "Error"
    ELSE IF certData = <<>>
    THEN (IF old = "Certified" THEN old ELSE "NotCertified")
    ELSE "Certified"

\* The certification status the write-back sets for a lookup outcome.
StatusOfLookup(old, certData, err) ==
    IF err THEN "Error"
    ELSE IF certData = <<>> THEN "NotCertified"
    ELSE "Certified"

\* A write-back that drops the stored data when the lookup fails.
PayloadDroppedOnError(old, certData, err) ==
    IF err THEN <<>>
    ELSE IF certData = <<>> THEN old
    ELSE <<PyxisDataOf(certData[1])>>

\* A write-back that fills the fields the new data leaves empty from the
\* stored data.
PayloadMerged(old, certData, err) ==
    IF err \/ certData = <<>> THEN old
    ELSE IF old = <<>> THEN <<PyxisDataOf(certData[1])>>
    ELSE LET new == PyxisDataOf(certData[1])
         IN  <<[new EXCEPT
                   !.Publisher = IF @ = "" THEN old[1].Publisher ELSE @,
                   !.PublishedAt = IF @ = <<>> THEN old[1].PublishedAt ELSE @,
                   !.EOLDate = IF @ = <<>> THEN old[1].EOLDate ELSE @,
                   !.Vulnerabilities =
                       IF @ = <<>> THEN old[1].Vulnerabilities ELSE @]>>

\* The PyxisData pointer after the write-back.
PayloadOfLookup(old, certData, err) ==
    IF err \/ certData = <<>> THEN old ELSE <<PyxisDataOf(certData[1])>>

\* A write-back that leaves the time of the last check as it was.
EnrichedStatusUnstamped(status, certData, err, now) ==
    LET payload == PayloadOfLookup(status.PyxisData, certData, err)
        fresh == ~err /\ certData # <<>>
    IN  [status EXCEPT
            !.CertificationStatus = StatusOfLookup(@, certData, err),
            !.PyxisData = payload,
            !.ImageAge =
                IF fresh /\ payload[1].PublishedAt # <<>>
                THEN formatDuration(now - payload[1].PublishedAt[1])
                ELSE @,
            !.DaysUntilEOL =
                IF fresh /\ payload[1].EOLDate # <<>>
                THEN <<TruncDiv(payload[1].EOLDate[1] - now, TicksPerDay)>>
                ELSE @]

\* The status checkPyxisCertification writes, from the status it has read.
EnrichedStatus(status, certData, err, now) ==
    LET payload == PayloadOfLookup(status.PyxisData, certData, err)
        fresh == ~err /\ certData # <<>>
    IN  [status EXCEPT
            !.LastPyxisCheckAt = <<now>>,
            !.CertificationStatus = StatusOfLookup(@, certData, err),
            !.PyxisData = payload,
            !.ImageAge =
                IF fresh /\ payload[1].PublishedAt # <<>>
                THEN formatDuration(now - payload[1].PublishedAt[1])
                ELSE @,
            !.DaysUntilEOL =
                IF fresh /\ payload[1].EOLDate # <<>>
                THEN <<TruncDiv(payload[1].EOLDate[1] - now, TicksPerDay)>>
                ELSE @]

\* A write-back that emits the EOL notice by the date: for an EOL date
\* from now to 90 days from now.
NoticesByDate(certData, err, now) ==
    IF err \/ certData = <<>> \/ ~RecorderSet THEN {}
    ELSE LET d == PyxisDataOf(certData[1])
         IN  (IF /\ d.EOLDate # <<>>
                 /\ d.EOLDate[1] - now >= 0
                 /\ d.EOLDate[1] - now <= 90 * TicksPerDay
              THEN {"EOLApproaching"} ELSE {})
             \cup (IF /\ d.Vulnerabilities # <<>>
                      /\ \/ d.Vulnerabilities[1].Critical > 0
                         \/ d.Vulnerabilities[1].Important > 0
                   THEN {"VulnerabilitiesFound"} ELSE {})

\* The reasons of the events the write-back emits for the outcome of its
\* lookup, at the time now.
Notices(certData, err, now) ==
    IF err \/ certData = <<>> \/ ~RecorderSet THEN {}
    ELSE LET d == PyxisDataOf(certData[1])
             daysUntil == TruncDiv(d.EOLDate[1] - now, TicksPerDay)
         IN  (IF d.EOLDate # <<>> /\ daysUntil >= 0 /\ daysUntil <= 90
              THEN {"EOLApproaching"} ELSE {})
             \cup (IF /\ d.Vulnerabilities # <<>>
                      /\ \/ d.Vulnerabilities[1].Critical > 0
                         \/ d.Vulnerabilities[1].Important > 0
                   THEN {"VulnerabilitiesFound"} ELSE {})

\* What PyxisClient.GetImageCertification can return on data of a set.
LookupOutcomes(dataSet) ==
    {[err |-> TRUE, certData |-> <<>>], [err |-> FALSE, certData |-> <<>>]}
        \cup {[err |-> FALSE, certData |-> <<d>>] : d \in dataSet}

\* The write-back after the lookup has returned o.
AfterLookup(t, o) ==
    [t EXCEPT !.pc = "get", !.certData = o.certData, !.err = o.err]

\* The write-back after r.Get of the record: it ends when the read fails,
\* otherwise it holds the copy with the status it is about to write.
AfterGet(t, tr) ==
    IF tr = "error" \/ ~Exists(t.crName)
    THEN [t EXCEPT !.pc = "done"]
    ELSE [t EXCEPT !.pc = "write",
             !.events = Notices(t.certData, t.err, clock),
             !.cr = <<[store[t.crName] EXCEPT
                         !.status = EnrichedStatus(@, t.certData, t.err, clock)]>>]

\* A write-back that leaves the CVE identifiers out.
WritesNoCVEs(t) == FALSE

\* The CVE annotation is written after the status.
WritesCVEs(t) == ~t.err /\ t.certData # <<>> /\ Len(t.certData[1].CVEs) > 0

\* The write-back after r.Status().Update.
AfterWrite(t) ==
    IF WritesCVEs(t)
    THEN [t EXCEPT !.pc = "getAnnotation", !.cr = <<>>]
    ELSE [t EXCEPT !.pc = "done", !.cr = <<>>]

\* The write-back after the second r.Get.
AfterGetAnnotation(t, tr) ==
    IF tr = "error" \/ ~Exists(t.crName)
    THEN [t EXCEPT !.pc = "done"]
    ELSE [t EXCEPT !.pc = "writeAnnotation",
             !.cr = <<[store[t.crName] EXCEPT
                         !.annotations = <<Join(t.certData[1].CVEs)>>]>>]

\* The store after a write of the write-back (status or annotation).
StoreAfterWrite(t, tr) ==
    IF tr = "ok" /\ Accepts(t.cr[1])
    THEN (IF t.pc = "write" THEN StatusUpdated(t.cr[1])
          ELSE ObjectUpdated(t.cr[1]))
    ELSE store

\* A write-back takes its next step: the lookup returns o, or a call to
\* the API server ends with tr.
WriteBackStep(t, o, tr) ==
    IF t.pc = "lookup" THEN AfterGet(AfterLookup(t, o), tr)
    ELSE IF t.pc = "write" THEN AfterWrite(t)
    ELSE IF t.pc = "getAnnotation" THEN AfterGetAnnotation(t, tr)
    ELSE [t EXCEPT !.pc = "done", !.cr = <<>>]

WriteBackStore(t, tr) ==
    IF t.pc \in {"write", "writeAnnotation"} THEN StoreAfterWrite(t, tr)
    ELSE store

\* The map without the key k.
Without(f, k) == [x \in DOMAIN f \ {k} |-> f[x]]

\* The goroutine started at discovery, from the return of the lookup to
\* r.Get of the record.
TaskLookup(k, o, tr) ==
    /\ Allowed(tr)
    /\ budget' = Charged(tr)
    /\ k \in DOMAIN tasks
    /\ tasks[k].pc = "lookup"
    /\ LET next == AfterGet(AfterLookup(tasks[k], o), tr)
       IN  tasks' = IF next.pc = "done" THEN Without(tasks, k)
                    ELSE [tasks EXCEPT ![k] = next]
    /\ UNCHANGED <<clock, pods, store, rec, sweeper, refresher, dockerhub, probe, loops>>

\* The goroutine started at discovery: a call to the API server.
TaskStep(k, tr) ==
    /\ Allowed(tr)
    /\ budget' = Charged(tr)
    /\ k \in DOMAIN tasks
    /\ tasks[k].pc \in {"write", "getAnnotation", "writeAnnotation"}
    /\ LET next == WriteBackStep(tasks[k], [err |-> FALSE, certData |-> <<>>], tr)
       IN  /\ store' = WriteBackStore(tasks[k], tr)
           /\ tasks' = IF next.pc = "done" THEN Without(tasks, k)
                       ELSE [tasks EXCEPT ![k] = next]
    /\ UNCHANGED <<clock, pods, rec, sweeper, refresher, dockerhub, probe, loops>>


(* ------------------------- health grade changes ------------------------ *)

\* The health grades, best first.
HealthGrades == <<"A", "B", "C", "D", "E", "F">>

\* The rank of a grade in the order, 0 for a grade that is not one of them.
gradeRank(grade) ==
    IF \E i \in 1..Len(HealthGrades) : HealthGrades[i] = grade
    THEN CHOOSE i \in 1..Len(HealthGrades) : HealthGrades[i] = grade
    ELSE 0

\* A comparison that also flags a grade that stays the same.
isHealthDegradedOrSame(oldGrade, newGrade) ==
    /\ gradeRank(oldGrade) # 0
    /\ gradeRank(newGrade) # 0
    /\ gradeRank(newGrade) >= gradeRank(oldGrade)

\* isHealthDegraded
isHealthDegraded(oldGrade, newGrade) ==
    /\ gradeRank(oldGrade) # 0
    /\ gradeRank(newGrade) # 0
    /\ gradeRank(newGrade) > gradeRank(oldGrade)

(* -------------------- the Docker Hub client chain ---------------------- *)

\* The cache time-to-live, in ticks (--dockerhub-cache-ttl).
CacheTTL == 2

\* The steady rate of the limiter, in tokens a tick (--dockerhub-rate-limit).
RateLimit == 1

\* The burst of the limiter (--dockerhub-rate-burst).
RateBurst == 1

\* The burst rate.NewLimiter is given before the options are applied.
DefaultRateBurst == 10

\* The goroutines that call GetRepositoryInfo on the chain.
Callers == 1..NumCallers

\* The arguments the callers pass: namespace and repository.
Repositories ==
    {[namespace |-> "library", repository |-> "nginx"],
     [namespace |-> "bitnami", repository |-> "redis"]}

\* The RepositoryInfo values the Docker Hub API answers with.
Infos == {[PullCount |-> 1000, StarCount |-> 10]}

\* What HTTPClient.GetRepositoryInfo can return: an error, nil for a
\* repository that is not found, or the repository's info.
BaseOutcomes ==
    {[err |-> TRUE, data |-> <<>>], [err |-> FALSE, data |-> <<>>]}
        \cup {[err |-> FALSE, data |-> <<i>>] : i \in Infos}

\* cacheKey
cacheKey(namespace, repository) == namespace \o "/" \o repository

\* The cache key of the call a caller is in.
KeyOf(c) == cacheKey(callers[c].args[1].namespace, callers[c].args[1].repository)

\* A caller that is not in a call.  args: the arguments of the call;
\* done: ctx.Done() is closed; entry, found: what the read of the map
\* returned; timeToAct: the time the limiter's reservation is for.
IdleCaller ==
    [pc |-> "idle", args |-> <<>>, done |-> FALSE, entry |-> <<>>,
     timeToAct |-> 0, data |-> <<>>, err |-> ""]

\* CachedClient.GetRepositoryInfo returns (data, err) to the caller c;
\* entry tells whether the result came from the cache.
ReturnedTo(c, entry, data, err) ==
    [pc |-> "return", args |-> callers[c].args, done |-> callers[c].done,
     entry |-> entry, timeToAct |-> 0, data |-> data, err |-> err]

\* NewCachedRateLimitedClient: an empty cache, and a limiter made with the
\* default burst, full, whose burst SetBurst then sets.
NewCachedRateLimitedClient ==
    /\ cache = <<>>
    /\ limiter = [tokens |-> DefaultRateBurst, last |-> 0, lastEvent |-> 0]
    /\ callers = [c \in Callers |-> IdleCaller]
    /\ wrapped = [limited |-> 0, base |-> 0]

Min(a, b) == IF a < b THEN a ELSE b

\* Limit.tokensFromDuration
tokensFromDuration(d) == d * RateLimit

\* Limit.durationFromTokens, of a whole number of tokens
durationFromTokens(tokens) ==
    IF tokens >= 0 THEN (tokens + RateLimit - 1) \div RateLimit
    ELSE -((-tokens) \div RateLimit)

\* Limiter.advance: the tokens in the bucket at time t.
advance(t) ==
    LET last == IF t < limiter.last THEN t ELSE limiter.last
    IN  Min(RateBurst, limiter.tokens + tokensFromDuration(t - last))

\* A limiter that makes nobody wait.
NoWait(t) == 0

\* Limiter.reserveN(t, 1, InfDuration): the wait for the token.
ReserveWait(t) ==
    IF advance(t) - 1 < 0 THEN durationFromTokens(1 - advance(t)) ELSE 0

\* Limiter.reserveN(t, 1, InfDuration): the limiter after the reservation.
Reserved(t) ==
    [tokens |-> advance(t) - 1, last |-> t, lastEvent |-> t + ReserveWait(t)]

\* Reservation.CancelAt(t), of a reservation of one token for timeToAct.
Cancelled(timeToAct, t) ==
    LET restoreTokens == 1 - tokensFromDuration(limiter.lastEvent - timeToAct)
        prevEvent == timeToAct + durationFromTokens(-1)
    IN  IF timeToAct < t \/ restoreTokens <= 0 THEN limiter
        ELSE [tokens |-> Min(RateBurst, advance(t) + restoreTokens),
              last |-> t,
              lastEvent |-> IF timeToAct = limiter.lastEvent /\ ~(prevEvent < t)
                            THEN prevEvent ELSE limiter.lastEvent]

\* CachedClient.GetRepositoryInfo up to the read of the map.
CacheRead(c, r) ==
    /\ callers[c].pc = "idle"
    /\ budget.lookups > 0
    /\ budget' = [budget EXCEPT !.lookups = @ - 1]
    /\ LET key == cacheKey(r.namespace, r.repository)
       IN  callers' = [callers EXCEPT ![c] =
              [IdleCaller EXCEPT
                  !.pc = "check", !.args = <<r>>,
                  !.entry = IF key \in DOMAIN cache THEN <<cache[key]>> ELSE <<>>]]
    /\ UNCHANGED <<clock, controller, cache, limiter, wrapped, probe, loops>>

\* An entry that is served once it has expired.
LiveOnceExpired(entry, now) == entry.expiresAt < now

\* An entry that is served until its expiry and at it.
LiveAtExpiry(entry, now) == now <= entry.expiresAt

\* The entry is served at time now: time.Now().Before(entry.expiresAt).
Live(entry, now) == now < entry.expiresAt

\* A decorator that joins the misses of a key: a caller that finds no live
\* entry while another caller holds the result for the same key takes
\* that result instead of calling the wrapped client.
CacheCheckJoined(c) ==
    /\ callers[c].pc = "check"
    /\ IF callers[c].entry # <<>> /\ Live(callers[c].entry[1], clock)
       THEN /\ callers' = [callers EXCEPT ![c] =
                  ReturnedTo(c, callers[c].entry, callers[c].entry[1].data, "")]
            /\ UNCHANGED wrapped
       ELSE IF \E d \in Callers \ {c} :
                  callers[d].pc = "store" /\ KeyOf(d) = KeyOf(c)
       THEN /\ callers' = [callers EXCEPT ![c] =
                  LET d == CHOOSE d \in Callers \ {c} :
                              callers[d].pc = "store" /\ KeyOf(d) = KeyOf(c)
                  IN  ReturnedTo(c, <<>>, callers[d].data, "")]
            /\ UNCHANGED wrapped
       ELSE /\ callers' = [callers EXCEPT ![c] = [@ EXCEPT !.pc = "wait"]]
            /\ wrapped' = [wrapped EXCEPT !.limited = @ + 1]
    /\ UNCHANGED <<clock, controller, budget, cache, limiter, probe, loops>>

\* A chain with the limiter in front of the cache: a token is reserved
\* for a hit as well.
CacheCheckBehindLimiter(c) ==
    /\ callers[c].pc = "check"
    /\ IF callers[c].entry # <<>> /\ Live(callers[c].entry[1], clock)
       THEN /\ callers' = [callers EXCEPT ![c] =
                  ReturnedTo(c, callers[c].entry, callers[c].entry[1].data, "")]
            /\ limiter' = Reserved(clock)
            /\ UNCHANGED wrapped
       ELSE /\ callers' = [callers EXCEPT ![c] = [@ EXCEPT !.pc = "wait"]]
            /\ wrapped' = [wrapped EXCEPT !.limited = @ + 1]
            /\ UNCHANGED limiter
    /\ UNCHANGED <<clock, controller, budget, cache, probe, loops>>

\* CachedClient.GetRepositoryInfo: the entry read is returned when it has
\* not expired; otherwise the wrapped client is called.
CacheCheck(c) ==
    /\ callers[c].pc = "check"
    /\ IF callers[c].entry # <<>> /\ Live(callers[c].entry[1], clock)
       THEN /\ callers' = [callers EXCEPT ![c] =
                  ReturnedTo(c, callers[c].entry, callers[c].entry[1].data, "")]
            /\ UNCHANGED wrapped
       ELSE /\ callers' = [callers EXCEPT ![c] = [@ EXCEPT !.pc = "wait"]]
            /\ wrapped' = [wrapped EXCEPT !.limited = @ + 1]
    /\ UNCHANGED <<clock, controller, budget, cache, limiter, probe, loops>>

\* RateLimitedClient.GetRepositoryInfo, limiter.Wait(ctx) up to the timer:
\* a cancelled caller gets ctx.Err(); otherwise a token is reserved, and
\* Wait returns at once when the reservation is for now.
LimiterWait(c) ==
    /\ callers[c].pc = "wait"
    /\ IF 1 > RateBurst
       THEN /\ callers' = [callers EXCEPT ![c] =
                  ReturnedTo(c, <<>>, <<>>, "exceeds burst")]
            /\ UNCHANGED limiter
       ELSE IF callers[c].done
       THEN /\ callers' = [callers EXCEPT ![c] =
                  ReturnedTo(c, <<>>, <<>>, "context canceled")]
            /\ UNCHANGED limiter
       ELSE /\ limiter' = Reserved(clock)
            /\ callers' = [callers EXCEPT ![c] =
                  IF ReserveWait(clock) = 0
                  THEN [@ EXCEPT !.pc = "fetch"]
                  ELSE [@ EXCEPT !.pc = "sleep",
                                 !.timeToAct = clock + ReserveWait(clock)]]
    /\ UNCHANGED <<clock, controller, budget, cache, wrapped, probe, loops>>

\* limiter.Wait(ctx): the select took the timer of the reservation, and
\* Wait returns nil.
LimiterTimer(c) ==
    /\ callers[c].pc = "sleep"
    /\ callers[c].timeToAct <= clock
    /\ callers' = [callers EXCEPT ![c] = [@ EXCEPT !.pc = "fetch", !.timeToAct = 0]]
    /\ UNCHANGED <<clock, controller, budget, cache, limiter, wrapped, probe, loops>>

\* A Wait that goes on to the wrapped client although the select took
\* ctx.Done().
WaitCallsThrough(c) == [callers[c] EXCEPT !.pc = "fetch", !.timeToAct = 0]

\* limiter.Wait(ctx) returns ctx.Err(), and so does the call.
WaitFails(c) == ReturnedTo(c, <<>>, <<>>, "context canceled")

\* limiter.Wait(ctx): the select took ctx.Done(); the reservation is
\* cancelled and the caller gets ctx.Err().
LimiterDone(c) ==
    /\ callers[c].pc = "cancelled"
    /\ limiter' = Cancelled(callers[c].timeToAct, clock)
    /\ callers' = [callers EXCEPT ![c] = WaitFails(c)]
    /\ UNCHANGED <<clock, controller, budget, cache, wrapped, probe, loops>>

\* A decorator that stores what a failed call returned.
FetchedAndKept(c, o) ==
    [callers[c] EXCEPT !.pc = "store", !.data = o.data,
                       !.err = IF o.err THEN "failed" ELSE ""]

\* The caller after c.client.GetRepositoryInfo has returned o: an error is
\* returned as it is.
Fetched(c, o) ==
    IF o.err THEN ReturnedTo(c, <<>>, <<>>, "failed")
    ELSE [callers[c] EXCEPT !.pc = "store", !.data = o.data]

\* The call of the base client and its return through the
\* RateLimitedClient to CachedClient.GetRepositoryInfo.  A request whose
\* context is cancelled fails.
Fetch(c, o) ==
    /\ callers[c].pc = "fetch"
    /\ callers[c].done => o.err
    /\ wrapped' = [wrapped EXCEPT !.base = @ + 1]
    /\ callers' = [callers EXCEPT ![c] = Fetched(c, o)]
    /\ UNCHANGED <<clock, controller, budget, cache, limiter, probe, loops>>

\* CachedClient.GetRepositoryInfo: the result is stored and returned.
CacheStore(c) ==
    /\ callers[c].pc = "store"
    /\ cache' = [k \in DOMAIN cache \cup {KeyOf(c)} |->
                    IF k = KeyOf(c)
                    THEN [data |-> callers[c].data, expiresAt |-> clock + CacheTTL]
                    ELSE cache[k]]
    /\ callers' = [callers EXCEPT ![c] =
          ReturnedTo(c, <<>>, callers[c].data, callers[c].err)]
    /\ UNCHANGED <<clock, controller, budget, limiter, wrapped, probe, loops>>

\* The caller has the result and is free for its next call.
CallerReturn(c) ==
    /\ callers[c].pc = "return"
    /\ callers' = [callers EXCEPT ![c] = IdleCaller]
    /\ UNCHANGED <<clock, controller, budget, cache, limiter, wrapped, probe, loops>>

\* The caller waits in the select of Wait and the timer of its reservation
\* has not fired.
Parked(c) == callers[c].pc = "sleep" /\ clock < callers[c].timeToAct

\* The context of a call is cancelled.  A caller parked in the select of
\* Wait is woken by ctx.Done(), which the select then takes (woken); one
\* whose timer has fired goes on with the timer.  At the time the timer
\* is for, either comes first.
CancelCaller(c, woken) ==
    /\ callers[c].pc \notin {"idle", "return", "cancelled"}
    /\ ~callers[c].done
    /\ woken => callers[c].pc = "sleep" /\ clock <= callers[c].timeToAct
    /\ ~woken => ~Parked(c)
    /\ callers' = [callers EXCEPT ![c] =
          [@ EXCEPT !.done = TRUE,
                    !.pc = IF woken THEN "cancelled" ELSE @]]
    /\ UNCHANGED <<clock, controller, budget, cache, limiter, wrapped, probe, loops>>

\* A sweep that takes the entries that have not expired.
NotExpired(entry, now) == now < entry.expiresAt

\* CleanupExpired deletes the entry: now.After(entry.expiresAt).
Expired(entry, now) == now > entry.expiresAt

\* CachedClient.CleanupExpired
CleanupExpired ==
    /\ loops.cache = "select"
    /\ budget.cleanups > 0
    /\ budget' = [budget EXCEPT !.cleanups = @ - 1]
    /\ cache' = [k \in {x \in DOMAIN cache : ~Expired(cache[x], clock)} |-> cache[k]]
    /\ UNCHANGED <<clock, controller, limiter, callers, wrapped, probe, loops>>

\* CachedClient.ClearCache
ClearCache ==
    /\ cache' = <<>>
    /\ UNCHANGED <<clock, controller, budget, limiter, callers, wrapped, probe, loops>>

\* No function is being called.
NoCall == [call |-> "", args |-> <<>>, ret |-> <<>>]
(* ------------------------------ r.List --------------------------------- *)

\* The orders r.List can return the records in: CleanupStaleReferences
\* ranges over crList.Items as they come and sorts nothing, and the client
\* promises no order.
ListOrders ==
    {o \in [1..Cardinality(DOMAIN store) -> DOMAIN store] :
        \A i, j \in DOMAIN o : i # j => o[i] # o[j]}

\* The items r.List returns, every record, in the order o of their names.
Listed(o) == [i \in DOMAIN o |-> store[o[i]]]

(* ----------------- PodReconciler.CleanupStaleReferences ---------------- *)

\* items: the listed records from the one the loop is at to the last;
\* outcomes: what r.Get of the pod returned for each reference checked.
IdleSweeper ==
    [pc |-> "idle", items |-> <<>>, j |-> 0, outcomes |-> <<>>,
     validRefs |-> <<>>]

\* The sweep at the first reference of the first of these records that has
\* references; a record without references takes no call.
RECURSIVE SweepAt(_)
SweepAt(items) ==
    IF Len(items) = 0 THEN IdleSweeper
    ELSE IF Len(items[1].status.PodReferences) = 0 THEN SweepAt(Tail(items))
    ELSE [pc |-> "check", items |-> items, j |-> 1, outcomes |-> <<>>,
          validRefs |-> <<>>]

\* CleanupStaleReferences up to the loop: r.List.
SweepList(tr) ==
    /\ loops.sweeper = "select"
    /\ sweeper.pc = "idle"
    /\ budget.sweeps > 0
    /\ Allowed(tr)
    /\ budget' = [Charged(tr) EXCEPT !.sweeps = @ - 1]
    /\ \E o \in ListOrders :
          sweeper' = IF tr = "error" THEN IdleSweeper ELSE SweepAt(Listed(o))
    /\ UNCHANGED <<clock, pods, store, rec, tasks, refresher, dockerhub, probe, loops>>

\* What r.Get of a pod can return.
PodGetOutcomes(p) ==
    IF pods[p] = "absent" THEN {"notfound", "error"} ELSE {"ok", "error"}

\* A sweep that keeps only the references whose pod was found.
KeepsOnlyFound(o) == o = "ok"

\* A sweep that keeps every reference, whatever the pod check returned.
KeepsEveryReference(o) == TRUE

\* The sweep keeps a reference whose pod check returned o.
KeepsReference(o) == o # "notfound"

\* The inner loop: r.Get of the pod of one reference.
SweepCheckPod(o) ==
    /\ sweeper.pc = "check"
    /\ Allowed(o)
    /\ budget' = Charged(o)
    /\ LET refs == sweeper.items[1].status.PodReferences
           podRef == refs[sweeper.j]
           p == [Namespace |-> podRef.Namespace, Name |-> podRef.Name]
       IN  /\ o \in PodGetOutcomes(p)
           /\ sweeper' =
                [sweeper EXCEPT
                    !.pc = IF sweeper.j < Len(refs) THEN "check" ELSE "write",
                    !.j = IF sweeper.j < Len(refs) THEN @ + 1 ELSE @,
                    !.outcomes = Append(@, o),
                    !.validRefs = IF KeepsReference(o) THEN Append(@, podRef)
                                  ELSE @]
    /\ UNCHANGED <<clock, pods, store, rec, tasks, refresher, dockerhub, probe, loops>>

\* After the inner loop: the status write of a record whose reference list
\* shrank; a record that kept its references is not written.
SweepWrite(tr) ==
    /\ sweeper.pc = "write"
    /\ LET listed == sweeper.items[1]
           cr == [listed EXCEPT !.status.PodReferences = sweeper.validRefs]
       IN  IF Len(sweeper.validRefs) # Len(listed.status.PodReferences)
           THEN /\ Allowed(tr)
                /\ budget' = Charged(tr)
                /\ store' = IF tr = "ok" /\ Accepts(cr) THEN StatusUpdated(cr)
                             ELSE store
           ELSE /\ tr = "ok"
                /\ UNCHANGED <<store, budget>>
    /\ sweeper' = SweepAt(Tail(sweeper.items))
    /\ UNCHANGED <<clock, pods, rec, tasks, refresher, dockerhub, probe, loops>>

\* The loop of StartCleanupLoop: the ticker fires again once the sweep
\* before has returned, and another sweep is due.
StartCleanupLoop ==
    /\ loops.sweeper = "select"
    /\ sweeper.pc = "idle"
    /\ budget.sweeps = 0
    /\ budget' = [budget EXCEPT !.sweeps = MaxSweeps]
    /\ UNCHANGED <<clock, pods, store, rec, tasks, sweeper, refresher,
                   dockerhub, probe, loops>>

(* --------------------------- refresh cycle ----------------------------- *)

\* The refresh interval, in ticks: 24 hours, the default of
\* --pyxis-refresh-interval, the period of the ticker of the refresh loop.
RefreshInterval == TicksPerDay

\* items: the listed records from the one the loop is at to the last;
\* wb: the write-back of that record; log: what the cycle did with each
\* record it has passed.
IdleRefresher == [pc |-> "idle", items |-> <<>>, wb |-> <<>>, log |-> <<>>]

\* The stagger of RefreshAllImages, in ticks: one hour. The cycle is run
\* by a reconciler that holds no interval (RefreshAllImages(ctx)), and
\* TestPodReconciler_RefreshAllImages has it refresh a record checked two
\* hours before and leave one checked 30 minutes before, "within the
\* hour".
StaggerWindow == 1

\* A cycle that leaves a record alone until its last check is older than
\* the refresh interval.
NeedsRefreshAfterInterval(cr, now) ==
    /\ IsRedHatRegistry(cr.spec.Registry)
    /\ \/ cr.status.LastPyxisCheckAt = <<>>
       \/ now - cr.status.LastPyxisCheckAt[1] > RefreshInterval

\* A cycle refreshes the record: its registry is certification-eligible
\* and its last check is unset or more than an hour old.
NeedsRefresh(cr, now) ==
    /\ IsRedHatRegistry(cr.spec.Registry)
    /\ \/ cr.status.LastPyxisCheckAt = <<>>
       \/ now - cr.status.LastPyxisCheckAt[1] > StaggerWindow

\* The image reference of a record, from its spec.
RefOfRecord(cr) ==
    [Registry |-> cr.spec.Registry,
     Repository |-> cr.spec.Repository,
     Tag |-> cr.spec.Tag,
     Digest |-> cr.spec.ImageDigest,
     FullReference |-> cr.spec.FullImageReference]

\* The cycle at the first of these records that it refreshes; after the
\* last record the cycle is over.
RECURSIVE RefreshAt(_, _, _)
RefreshAt(items, now, log) ==
    IF Len(items) = 0 THEN [IdleRefresher EXCEPT !.log = log]
    ELSE IF ~NeedsRefresh(items[1], now)
    THEN RefreshAt(Tail(items), now, 
             Append(log, [name |-> items[1].name, did |-> "skipped"]))
    ELSE [pc |-> "run", items |-> items,
          wb |-> <<NewTask(items[1].name, RefOfRecord(items[1]))>>,
          log |-> log]

\* The timer of the startup jitter or the ticker of the refresh loop has
\* fired: a cycle up to its loop, r.List.
RefreshList(tr) ==
    /\ loops.refresh # "exited"
    /\ refresher.pc = "idle"
    /\ PyxisClientSet
    /\ budget.cycles > 0
    /\ Allowed(tr)
    /\ budget' = [Charged(tr) EXCEPT !.cycles = @ - 1]
    /\ \E o \in ListOrders :
          refresher' = IF tr = "error" THEN IdleRefresher
                       ELSE RefreshAt(Listed(o), clock, <<>>)
    /\ loops' = [loops EXCEPT !.refresh = "select"]
    /\ UNCHANGED <<clock, pods, store, rec, tasks, sweeper, dockerhub, probe>>

\* The write-back of the record the cycle is at: a call to the API server;
\* when the write-back has returned the cycle goes on with the next record.
RefreshStep(o, tr) ==
    /\ refresher.pc = "run"
    /\ Allowed(tr)
    /\ budget' = Charged(tr)
    /\ refresher.wb[1].pc # "lookup" => o = [err |-> FALSE, certData |-> <<>>]
    /\ LET next == WriteBackStep(refresher.wb[1], o, tr)
       IN  /\ store' = WriteBackStore(refresher.wb[1], tr)
           /\ refresher' =
                IF next.pc = "done"
                THEN RefreshAt(Tail(refresher.items), clock,
                               Append(refresher.log,
                                      [name |-> refresher.items[1].name,
                                       did |-> "refreshed"]))
                ELSE [refresher EXCEPT !.wb = <<next>>]
    /\ UNCHANGED <<clock, pods, rec, tasks, sweeper, dockerhub, probe, loops>>

(* ------------------------- the background loops ------------------------ *)

\* The signal handler cancels the context the three loops were started
\* with.
CancelLoops ==
    /\ ~loops.done
    /\ loops' = [loops EXCEPT !.done = TRUE]
    /\ UNCHANGED <<clock, controller, budget, dockerhub, probe>>

\* A loop that looks at ctx.Done() only when its ticker fires.
LoopReturnAtTick(l) ==
    /\ loops.done
    /\ loops[l] # "exited"
    /\ l = "sweeper" => sweeper.pc = "idle"
    /\ l = "refresh" => refresher.pc = "idle"
    /\ l = "sweeper" => budget.sweeps > 0
    /\ l = "cache" => budget.cleanups > 0
    /\ l = "refresh" => budget.cycles > 0
    /\ loops' = [loops EXCEPT ![l] = "exited"]
    /\ UNCHANGED <<clock, controller, budget, dockerhub, probe>>

\* The select of a loop, or that of the startup jitter of the refresh
\* loop, takes ctx.Done(), and the goroutine returns. A goroutine that is
\* in a sweep or a cycle comes to its select when that has returned.
LoopReturn(l) ==
    /\ loops.done
    /\ loops[l] # "exited"
    /\ l = "sweeper" => sweeper.pc = "idle"
    /\ l = "refresh" => refresher.pc = "idle"
    /\ loops' = [loops EXCEPT ![l] = "exited"]
    /\ UNCHANGED <<clock, controller, budget, dockerhub, probe>>

(* ---------------------------- environment ------------------------------ *)

\* Time passes.
Tick ==
    /\ clock < budget.maxTime
    /\ clock' = clock + 1
    /\ UNCHANGED <<pods, store, rec, tasks, sweeper, refresher, budget,
                 dockerhub, probe, loops>>

\* The life of a pod: created Pending, started, ended or lost, and deleted
\* at any time.
PodMoves(from, to) ==
    \/ from = "absent" /\ to = "Pending"
    \/ from = "Pending" /\ to = "Running"
    \/ from = "Running" /\ to \in {"Succeeded", "Failed", "Unknown"}
    \/ from = "Unknown" /\ to = "Running"
    \/ from # "absent" /\ to = "absent"

\* The cluster creates or deletes a pod, or moves it to another phase.
PodEvent(p, phase) ==
    /\ budget.podEvents > 0
    /\ PodMoves(pods[p], phase)
    /\ pods' = [pods EXCEPT ![p] = phase]
    /\ budget' = [budget EXCEPT !.podEvents = @ - 1]
    /\ UNCHANGED <<clock, store, rec, tasks, sweeper, refresher, dockerhub, probe, loops>>

(* ---------------------------- specification ---------------------------- *)

\* The state every specification starts in, but for the budget.
Start ==
    /\ clock = 0
    /\ pods = [p \in PodKeys |-> IF p = PodA THEN "Running" ELSE "Pending"]
    /\ store = <<>>
    /\ rec = [w \in Workers |-> IdleWorker]
    /\ tasks = <<>>
    /\ sweeper = IdleSweeper
    /\ refresher = IdleRefresher
    /\ NewCachedRateLimitedClient
    /\ loops = [sweeper |-> "select", cache |-> "select", refresh |-> "jitter",
                done |-> FALSE]

Budget(passes, sweeps, cycles, podEvents, maxTime) ==
    [passes |-> passes, sweeps |-> sweeps, cycles |-> cycles,
     podEvents |-> podEvents, maxTime |-> maxTime, faults |-> MaxFaults,
     lookups |-> 0, cleanups |-> 0]

\* Reconcile passes and the lookups they start.
Reconciling ==
    \/ \E w \in Workers, p \in PodKeys, tr \in Transport : ReconcileGetPod(w, p, tr)
    \/ \E w \in Workers : ReconcileReturn(w)
    \/ \E w \in Workers, tr \in Transport : ReconcileContainer(w, tr)
    \/ \E w \in Workers, tr \in Transport : ReconcileCreate(w, tr)
    \/ \E w \in Workers, tr \in Transport : ReconcileInitStatus(w, tr)
    \/ \E w \in Workers, tr \in Transport : ReconcileUpdateRefs(w, tr)
    \/ \E k \in DOMAIN tasks, o \in LookupOutcomes(PlainData), tr \in Transport :
          TaskLookup(k, o, tr)
    \/ \E k \in DOMAIN tasks, tr \in Transport : TaskStep(k, tr)

\* The reconciler and its discovery lookups, in a cluster whose pods come,
\* go and change phase while time passes.
Init ==
    /\ Start
    /\ budget = Budget(MaxPasses, 0, 0, MaxPodEvents, MaxTime)
    /\ probe = NoCall

Next ==
    \/ Reconciling
    \/ Tick
    \/ \E p \in PodKeys, phase \in Phases \cup {"absent"} : PodEvent(p, phase)

Spec == Init /\ [][Next]_vars

\* The reconciler, its discovery lookups and the sweeper, in a cluster
\* whose pods come, go and change phase.
InitSweep ==
    /\ Start
    /\ budget = Budget(MaxPasses, MaxSweeps, 0, MaxPodEvents, 0)
    /\ probe = NoCall

NextSweep ==
    \/ Reconciling
    \/ \E tr \in Transport : SweepList(tr)
    \/ \E o \in {"ok", "notfound", "error"} : SweepCheckPod(o)
    \/ \E tr \in Transport : SweepWrite(tr)
    \/ \E p \in PodKeys, phase \in Phases \cup {"absent"} : PodEvent(p, phase)

SpecSweep == InitSweep /\ [][NextSweep]_vars

\* The reconciler, its discovery lookups and the refresh cycle, while time
\* passes.
InitRefresh ==
    /\ Start
    /\ budget = Budget(MaxRefreshPasses, 0, MaxCycles, 0, MaxRefreshTime)
    /\ probe = NoCall

NextRefresh ==
    \/ Reconciling
    \/ Tick
    \/ \E tr \in Transport : RefreshList(tr)
    \/ \E o \in LookupOutcomes(PlainData \cup CVEData), tr \in Transport :
          RefreshStep(o, tr)

SpecRefresh == InitRefresh /\ [][NextRefresh]_vars


(* ----------------- specification of the client chain ------------------- *)

\* The callers of the Docker Hub client chain, the sweep of its cache, and
\* time.
InitHub ==
    /\ Start
    /\ budget = [Budget(0, 0, 0, 0, MaxHubTime) EXCEPT
                    !.lookups = MaxLookups, !.cleanups = MaxCleanups]
    /\ probe = NoCall

NextHub ==
    \/ \E c \in Callers, r \in Repositories : CacheRead(c, r)
    \/ \E c \in Callers : CacheCheck(c)
    \/ \E c \in Callers : LimiterWait(c)
    \/ \E c \in Callers : LimiterTimer(c)
    \/ \E c \in Callers : LimiterDone(c)
    \/ \E c \in Callers, o \in BaseOutcomes : Fetch(c, o)
    \/ \E c \in Callers : CacheStore(c)
    \/ \E c \in Callers : CallerReturn(c)
    \/ \E c \in Callers, woken \in BOOLEAN : CancelCaller(c, woken)
    \/ CleanupExpired
    \/ ClearCache
    \/ Tick

SpecHub == InitHub /\ [][NextHub]_vars

\* Arguments that differ in where the namespace ends.
SplitRepositories ==
    {[namespace |-> "bitnami/redis", repository |-> "cluster"],
     [namespace |-> "bitnami", repository |-> "redis/cluster"]}

\* The client chain with callers that pass these arguments.
NextKeys ==
    \/ \E c \in Callers, r \in SplitRepositories : CacheRead(c, r)
    \/ \E c \in Callers : CacheCheck(c)
    \/ \E c \in Callers : LimiterWait(c)
    \/ \E c \in Callers : LimiterTimer(c)
    \/ \E c \in Callers : LimiterDone(c)
    \/ \E c \in Callers, o \in BaseOutcomes : Fetch(c, o)
    \/ \E c \in Callers : CacheStore(c)
    \/ \E c \in Callers : CallerReturn(c)
    \/ \E c \in Callers, woken \in BOOLEAN : CancelCaller(c, woken)
    \/ CleanupExpired
    \/ ClearCache
    \/ Tick

SpecKeys == InitHub /\ [][NextKeys]_vars

(* ------------------- calls of functions without state ------------------ *)

\* Image identifiers as a container status may carry them: none, a scheme
\* alone, without a digest, with two, and with one digest with and without
\* scheme, tag, registry and port.
RawImageIDs ==
    {
     \* registry.redhat.io/ubi8/ubi:latest
     <<"r","e","g","i","s","t","r","y",".","r","e","d","h","a","t",".","i","o","/","u","b","i","8","/","u","b","i",":","l","a","t","e","s","t">>,
     \* registry.redhat.io/ubi8/ubi
     <<"r","e","g","i","s","t","r","y",".","r","e","d","h","a","t",".","i","o","/","u","b","i","8","/","u","b","i">>,
     \* nginx@sha256:12345678@sha256:12345678
     <<"n","g","i","n","x","@","s","h","a","2","5","6",":","1","2","3","4","5","6","7","8","@","s","h","a","2","5","6",":","1","2","3","4","5","6","7","8">>,
     \* the ubi image without a scheme
     <<"r","e","g","i","s","t","r","y",".","r","e","d","h","a","t",".","i","o","/","u","b","i","8","/","u","b","i","@","s","h","a","2","5","6",":","a","b","c","1","2","3","d","e","0","1","2","3","4","5","6","7","8","9","a","b","c","d","e","f","0","1","2","3","4","5","6","7","8","9","a","b","c","d","e","f","0","1","2","3","4","5","6","7","8","9","a","b","c","d","e","f","0","1","2","3","4","5","6","7">>,
     \* the ubi image with docker:// and the tag 8.9
     <<"d","o","c","k","e","r",":","/","/","r","e","g","i","s","t","r","y",".","r","e","d","h","a","t",".","i","o","/","u","b","i","8","/","u","b","i",":","8",".","9","@","s","h","a","2","5","6",":","a","b","c","1","2","3","d","e","0","1","2","3","4","5","6","7","8","9","a","b","c","d","e","f","0","1","2","3","4","5","6","7","8","9","a","b","c","d","e","f","0","1","2","3","4","5","6","7","8","9","a","b","c","d","e","f","0","1","2","3","4","5","6","7">>,
     \* nginx@sha256:1234567890abcdef
     <<"n","g","i","n","x","@","s","h","a","2","5","6",":","1","2","3","4","5","6","7","8","9","0","a","b","c","d","e","f">>,
     \* docker.io/library/nginx:1.25@sha256:1234567890abcdef
     <<"d","o","c","k","e","r",".","i","o","/","l","i","b","r","a","r","y","/","n","g","i","n","x",":","1",".","2","5","@","s","h","a","2","5","6",":","1","2","3","4","5","6","7","8","9","0","a","b","c","d","e","f">>,
     \* localhost:5000/app@sha256:1234567890abcdef
     <<"l","o","c","a","l","h","o","s","t",":","5","0","0","0","/","a","p","p","@","s","h","a","2","5","6",":","1","2","3","4","5","6","7","8","9","0","a","b","c","d","e","f">>,
     \* docker-pullable://localhost:5000/app:v1@sha256:1234567890abcdef
     <<"d","o","c","k","e","r","-","p","u","l","l","a","b","l","e",":","/","/","l","o","c","a","l","h","o","s","t",":","5","0","0","0","/","a","p","p",":","v","1","@","s","h","a","2","5","6",":","1","2","3","4","5","6","7","8","9","0","a","b","c","d","e","f">>,
     \* nginx@
     <<"n","g","i","n","x","@">>,
     <<>>, PrefixDocker, ImgNoDigest, ImgUbi, ImgUbiTwin, ImgQuay}

\* Grades as the lookup may return them: the six grades, none, and two
\* that are no grades.
RawGrades == {"", "A", "B", "C", "D", "E", "F", "X", "Y"}

\* image.ParseImageID as its caller sees it: the reference, or an error.
ParseResult(imageID) ==
    IF ParseFails(imageID)
    THEN [ref |-> <<>>, err |-> TRUE]
    ELSE [ref |-> <<ParseImageID(imageID)>>, err |-> FALSE]

\* The record name Reconcile derives for a container status, or the error
\* of the parser.
RecordKey(imageID) ==
    IF ParseResult(imageID).err
    THEN [name |-> <<>>, err |-> TRUE]
    ELSE [name |-> ReferenceToCRName(ParseResult(imageID).ref[1]), err |-> FALSE]

\* image.ParseImageID(imageID) is called.
ParseCall(imageID) ==
    /\ probe = NoCall
    /\ probe' = [call |-> "ParseImageID", args |-> <<imageID>>,
                 ret |-> <<ParseResult(imageID)>>]
    /\ UNCHANGED <<clock, controller, budget, dockerhub, loops>>

\* The record names of two container statuses are derived.
KeyCall(a, b) ==
    /\ probe = NoCall
    /\ probe' = [call |-> "ReferenceToCRName", args |-> <<a, b>>,
                 ret |-> <<RecordKey(a), RecordKey(b)>>]
    /\ UNCHANGED <<clock, controller, budget, dockerhub, loops>>

\* isHealthDegraded(oldGrade, newGrade) is called.
GradeCall(oldGrade, newGrade) ==
    /\ probe = NoCall
    /\ probe' = [call |-> "isHealthDegraded", args |-> <<oldGrade, newGrade>>,
                 ret |-> <<isHealthDegraded(oldGrade, newGrade)>>]
    /\ UNCHANGED <<clock, controller, budget, dockerhub, loops>>

\* The call returns to its caller.
ProbeReturn ==
    /\ probe # NoCall
    /\ probe' = NoCall
    /\ UNCHANGED <<clock, controller, budget, dockerhub, loops>>

\* Calls of the functions of the image package and of the grade comparison.
InitPure ==
    /\ Start
    /\ budget = Budget(0, 0, 0, 0, 0)
    /\ probe = NoCall

NextPure ==
    \/ \E a, b \in RawImageIDs : KeyCall(a, b)
    \/ \E oldGrade, newGrade \in RawGrades : GradeCall(oldGrade, newGrade)
    \/ ProbeReturn

SpecPure == InitPure /\ [][NextPure]_vars

\* One reconcile pass and its discovery lookups, and calls of the parser.
InitParse ==
    /\ Start
    /\ budget = Budget(MaxParsePasses, 0, 0, MaxPodEvents, MaxTime)
    /\ probe = NoCall

NextParse ==
    \/ Reconciling
    \/ Tick
    \/ \E p \in PodKeys, phase \in Phases \cup {"absent"} : PodEvent(p, phase)
    \/ \E imageID \in RawImageIDs : ParseCall(imageID)
    \/ ProbeReturn

SpecParse == InitParse /\ [][NextParse]_vars

(* ------------------- lookups that return other data -------------------- *)

\* Certification data with CVE identifiers, and data of images published
\* at the start of the run whose end of life is 22 hours before it, and
\* 91 days and an hour after it.
RichData ==
    CVEData \cup
        {[Publisher |-> "Red Hat, Inc.", HealthIndex |-> "C",
          PublishedAt |-> <<[ok |-> TRUE, t |-> 0]>>,
          EOLDate |-> <<[ok |-> TRUE, t |-> t]>>,
          Vulnerabilities |-> <<>>, CVEs |-> <<>>] :
            t \in {2 - TicksPerDay, 91 * TicksPerDay + 1}}

\* The reconciler, its discovery lookups and the refresh cycle, with
\* lookups that return these certification data.
NextEnrich ==
    \/ \E w \in Workers, p \in PodKeys, tr \in Transport : ReconcileGetPod(w, p, tr)
    \/ \E w \in Workers : ReconcileReturn(w)
    \/ \E w \in Workers, tr \in Transport : ReconcileContainer(w, tr)
    \/ \E w \in Workers, tr \in Transport : ReconcileCreate(w, tr)
    \/ \E w \in Workers, tr \in Transport : ReconcileInitStatus(w, tr)
    \/ \E w \in Workers, tr \in Transport : ReconcileUpdateRefs(w, tr)
    \/ \E k \in DOMAIN tasks, o \in LookupOutcomes(RichData), tr \in Transport :
          TaskLookup(k, o, tr)
    \/ \E k \in DOMAIN tasks, tr \in Transport : TaskStep(k, tr)
    \/ Tick
    \/ \E tr \in Transport : RefreshList(tr)
    \/ \E o \in LookupOutcomes(RichData), tr \in Transport : RefreshStep(o, tr)

SpecEnrich == InitRefresh /\ [][NextEnrich]_vars

(* --------------------------- fair scheduling --------------------------- *)

\* The reconciler with a worker that goes on whenever it can, and lookups
\* that may never return: no step of a write-back is ever required.
SpecPasses ==
    /\ Spec
    /\ WF_vars(\E w \in Workers, p \in PodKeys, tr \in Transport :
                  \/ ReconcileGetPod(w, p, tr)
                  \/ ReconcileContainer(w, tr)
                  \/ ReconcileCreate(w, tr)
                  \/ ReconcileInitStatus(w, tr)
                  \/ ReconcileUpdateRefs(w, tr)
                  \/ ReconcileReturn(w))

\* Passes of the reconciler beside the sweep loop.
MaxLoopPasses == 1

InitCleanupLoop ==
    /\ Start
    /\ budget = Budget(MaxLoopPasses, MaxSweeps, 0, MaxPodEvents, 0)
    /\ probe = NoCall

\* The reconciler, its lookups and the sweeper whose ticker goes on firing:
\* the sweeper takes every step it can, and the calls that fail are those
\* the budget allows, so the store accepts the writes in the end.
SpecCleanupLoop ==
    /\ InitCleanupLoop
    /\ [][NextSweep \/ StartCleanupLoop]_vars
    /\ WF_vars(\/ StartCleanupLoop
               \/ \E tr \in Transport : SweepList(tr)
               \/ \E o \in {"ok", "notfound", "error"} : SweepCheckPod(o)
               \/ \E tr \in Transport : SweepWrite(tr))

(* --------------------- the loops and their context --------------------- *)

\* The loops beside one pass of the reconciler, with an API server whose
\* calls do not fail.
InitLoops ==
    /\ Start
    /\ budget = [Budget(MaxLoopPasses, MaxSweeps, MaxCycles, MaxPodEvents, 0)
                    EXCEPT !.cleanups = MaxCleanups, !.faults = 0]
    /\ probe = NoCall

NextLoops ==
    \/ \E w \in Workers, p \in PodKeys, tr \in Transport : ReconcileGetPod(w, p, tr)
    \/ \E w \in Workers : ReconcileReturn(w)
    \/ \E w \in Workers, tr \in Transport : ReconcileContainer(w, tr)
    \/ \E w \in Workers, tr \in Transport : ReconcileCreate(w, tr)
    \/ \E w \in Workers, tr \in Transport : ReconcileInitStatus(w, tr)
    \/ \E w \in Workers, tr \in Transport : ReconcileUpdateRefs(w, tr)
    \/ \E p \in PodKeys, phase \in Phases \cup {"absent"} : PodEvent(p, phase)
    \/ \E tr \in Transport : SweepList(tr)
    \/ \E o \in {"ok", "notfound", "error"} : SweepCheckPod(o)
    \/ \E tr \in Transport : SweepWrite(tr)
    \/ CleanupExpired
    \/ \E tr \in Transport : RefreshList(tr)
    \/ \E o \in LookupOutcomes(PlainData), tr \in Transport : RefreshStep(o, tr)
    \/ CancelLoops
    \/ \E l \in {"sweeper", "cache", "refresh"} : LoopReturn(l)

\* The loops with goroutines that go on whenever they can: a sweep or a
\* cycle that has started takes its next step, and a select whose context
\* is cancelled returns. Nothing makes a ticker fire.
SpecLoops ==
    /\ InitLoops
    /\ [][NextLoops]_vars
    /\ WF_vars(\/ \E o \in {"ok", "notfound", "error"} : SweepCheckPod(o)
               \/ \E tr \in Transport : SweepWrite(tr)
               \/ LoopReturn("sweeper"))
    /\ WF_vars(LoopReturn("cache"))
    /\ WF_vars(\/ \E o \in LookupOutcomes(PlainData), tr \in Transport :
                     RefreshStep(o, tr)
               \/ LoopReturn("refresh"))
(* ------------------------------- claims -------------------------------- *)

KeyUbi ==
    <<"r","e","g","i","s","t","r","y",".","r","e","d","h","a","t",".","i","o",".","u","b","i","8",".","u","b","i",".","a","b","c","1","2","3","d","e">>

KeyQuay ==
    <<"q","u","a","y",".","i","o",".","a","p","p",".","0","0","1","1","2","2","3","3">>

\* The record name each image of the universe is to get, written out.
ExpectedKey(imageID) ==
    IF imageID \in {ImgUbi, ImgUbiTwin} THEN KeyUbi ELSE KeyQuay

\* The reference of a container status of pod p.
PodRefOf(p, cs) ==
    [Namespace |-> p.Namespace, Name |-> p.Name, Container |-> cs.Name]

RefMain == PodRefOf(PodA, ContainerStatuses(PodA)[1])

RefInit == PodRefOf(PodB, InitContainerStatuses(PodB)[1])

\* The imageID behind a workload reference.
ImageOfRef(podRef) ==
    LET p == [Namespace |-> podRef.Namespace, Name |-> podRef.Name]
        i == CHOOSE i \in 1..Len(AllStatuses(p)) :
                 AllStatuses(p)[i].Name = podRef.Container
    IN  AllStatuses(p)[i].ImageID

\* The record was created for this imageID, and its creation wrote the
\* status.
CreatedFor(k, imageID) ==
    /\ k \in DOMAIN store
    /\ store[k].spec.ImageDigest = ParsedImages[imageID].Digest
    /\ store[k].status.FirstSeenAt # <<>>

\* C1: no record's workloadReferences holds two entries with the same
\* (namespace, workload-name, container-name) triple, however reconcile
\* passes of the same workload are repeated and interleaved with sweeps and
\* enrichment write-backs; a replay that appended its reference again
\* would break this.
C1_NoDuplicateReferences ==
    \A k \in DOMAIN store :
        LET refs == store[k].status.PodReferences
        IN  \A i, j \in 1..Len(refs) : i # j => refs[i] # refs[j]

\* A second pass of pod-a has found its reference in the record, after the
\* record was enriched and a sweep has run.
C1_Witness ==
    /\ \E w \in Workers :
          /\ rec[w].pc = "return"
          /\ rec[w].req = <<PodA>>
          /\ rec[w].log = <<"updated", "no-image">>
    /\ CreatedFor(KeyUbi, ImgUbi)
    /\ store[KeyUbi].status.PodReferences = <<RefMain>>
    /\ store[KeyUbi].status.LastPyxisCheckAt # <<>>
    /\ budget.sweeps < MaxSweeps
    /\ budget.passes = 0

\* C2: images with different (registry, repository, digest) triples are
\* held in different records: every workload reference of a record belongs
\* to an image whose triple is the one in the record's identity fields.
C2_OneTriplePerRecord ==
    \A k \in DOMAIN store :
        LET refs == store[k].status.PodReferences
        IN  \A i \in 1..Len(refs) :
                LET img == ParsedImages[ImageOfRef(refs[i])]
                IN  /\ img.Registry = store[k].spec.Registry
                    /\ img.Repository = store[k].spec.Repository
                    /\ img.Digest = store[k].spec.ImageDigest

\* C3: reconciling a workload whose container image registry/repo@sha256:hex
\* has no record creates exactly one record, named registry.repo with dots
\* for slashes, a dot and the first 8 hex characters of the digest; when
\* createImageCertificationInfo returns, that record has the certification
\* status Unknown and the one reference of that workload and container,
\* and no other record has changed.
C3_DiscoveryCreatesOneRecord ==
    [][\A w \in Workers :
          LET key == ExpectedKey(CurStatus(w).ImageID)
          IN  /\ (rec[w].pc = "create" /\ rec'[w].pc = "status") =>
                    /\ key \notin DOMAIN store
                    /\ DOMAIN store' = DOMAIN store \cup {key}
                    /\ \A k \in DOMAIN store : store'[k] = store[k]
              /\ (rec[w].pc = "status"
                    /\ rec'[w].log = Append(rec[w].log, "created")) =>
                    /\ DOMAIN store' = DOMAIN store
                    /\ \A k \in DOMAIN store \ {key} : store'[k] = store[k]
                    /\ store'[key].status.CertificationStatus = "Unknown"
                    /\ store'[key].status.PodReferences =
                          <<PodRefOf(rec[w].req[1], CurStatus(w))>>]_vars

\* The pass of pod-a has returned after creating the one record of the
\* store, for its one container that has an image.
C3_Witness ==
    /\ \E w \in Workers :
          /\ rec[w].pc = "return"
          /\ rec[w].req = <<PodA>>
          /\ rec[w].log = <<"created", "no-image">>
    /\ DOMAIN store = {KeyUbi}
    /\ store[KeyUbi].status.CertificationStatus = "Unknown"
    /\ store[KeyUbi].status.PodReferences = <<RefMain>>

\* The write-back whose status write of record k this step is: the one of
\* the goroutine started at discovery, or the one of the refresh cycle.
StatusWriter(k) ==
    IF k \in DOMAIN tasks /\ tasks[k].pc = "write" /\ tasks' # tasks
    THEN <<tasks[k]>>
    ELSE IF /\ refresher.pc = "run"
            /\ refresher.wb[1].pc = "write"
            /\ refresher.wb[1].crName = k
            /\ refresher' # refresher
    THEN <<refresher.wb[1]>>
    ELSE <<>>

\* C4: a write-back sets the certification status from the outcome of its
\* lookup alone: every status write of a write-back whose lookup returned
\* data leaves the record Certified, and every one whose lookup returned
\* nothing leaves it NotCertified, whatever the status was before.
C4_StatusFromLookupAlone ==
    [][\A k \in DOMAIN store :
          LET wr == StatusWriter(k)
          IN  (wr # <<>> /\ store'[k] # store[k] /\ ~wr[1].err) =>
                  store'[k].status.CertificationStatus =
                      IF wr[1].certData # <<>> THEN "Certified"
                      ELSE "NotCertified"]_vars

\* A record that a lookup with data made Certified is NotCertified after a
\* later lookup that returned nothing (the data of the first is still there).
C4_Witness ==
    /\ KeyUbi \in DOMAIN store
    /\ store[KeyUbi].status.CertificationStatus = "NotCertified"
    /\ store[KeyUbi].status.PyxisData # <<>>

\* C5: when the lookup fails, the status write of the write-back sets the
\* status Error and the time of the check, and leaves the stored data, the
\* image age and the days until end of life as they were.
C5_LookupErrorKeepsData ==
    [][\A k \in DOMAIN store :
          LET wr == StatusWriter(k)
          IN  (wr # <<>> /\ store'[k] # store[k] /\ wr[1].err) =>
                  /\ store'[k].status.CertificationStatus = "Error"
                  /\ store'[k].status.LastPyxisCheckAt # <<>>
                  /\ store'[k].status.LastPyxisCheckAt[1] <= clock
                  /\ store[k].status.LastPyxisCheckAt # <<>> =>
                        store'[k].status.LastPyxisCheckAt[1]
                            >= store[k].status.LastPyxisCheckAt[1]
                  /\ store'[k].status.PyxisData = store[k].status.PyxisData
                  /\ store'[k].status.ImageAge = store[k].status.ImageAge
                  /\ store'[k].status.DaysUntilEOL = store[k].status.DaysUntilEOL]_vars

\* A record that holds certification data has the status Error: a later
\* lookup failed.
C5_Witness ==
    /\ KeyUbi \in DOMAIN store
    /\ store[KeyUbi].status.CertificationStatus = "Error"
    /\ store[KeyUbi].status.PyxisData # <<>>
    /\ store[KeyUbi].status.ImageAge # ""
    /\ store[KeyUbi].status.DaysUntilEOL # <<>>

\* C6: a pass for a pod whose phase is neither Running nor Pending creates
\* no record, changes no record, starts no lookup, and returns success.
C6_EndedPodLeavesStore ==
    [][\A w \in Workers, p \in PodKeys :
          (/\ rec[w].pc = "idle"
           /\ rec'[w].req = <<p>>
           /\ rec'[w].podRead # "error"
           /\ pods[p] \in {"Succeeded", "Failed", "Unknown"}) =>
              /\ store' = store
              /\ tasks' = tasks
              /\ rec'[w].pc = "return"
              /\ rec'[w].result = "success"]_vars

\* A pass for pod-a, whose phase is neither Running nor Pending, has
\* returned; the record an earlier pass created for it is in the store.
C6_Witness ==
    /\ \E w \in Workers :
          /\ rec[w].pc = "return"
          /\ rec[w].req = <<PodA>>
          /\ rec[w].podRead = "skipped"
          /\ rec[w].result = "success"
    /\ pods[PodA] \in {"Succeeded", "Failed", "Unknown"}
    /\ KeyUbi \in DOMAIN store
    /\ store[KeyUbi].status.PodReferences = <<RefMain>>

\* C7: for a record whose registry is not certification-eligible no lookup
\* is issued, neither by the discovery nor by a refresh cycle: it has no
\* write-back, its last-check time and its data stay unset, and its
\* certification status is Unknown, the value its creation writes and the
\* default of the field (unset as long as no status of the record has been
\* written at all).
C7_NoLookupForOtherRegistries ==
    \A k \in DOMAIN store :
        ~IsRedHatRegistry(store[k].spec.Registry) =>
            /\ k \notin DOMAIN tasks
            /\ refresher.pc = "run" => refresher.wb[1].crName # k
            /\ store[k].status.LastPyxisCheckAt = <<>>
            /\ store[k].status.PyxisData = <<>>
            /\ store[k].status.CertificationStatus =
                  IF store[k].status.LastSeenAt = <<>> THEN "" ELSE "Unknown"

\* A refresh cycle has passed over the record of the quay.io image, which
\* the discovery left Unknown.
C7_Witness ==
    /\ KeyQuay \in DOMAIN store
    /\ store[KeyQuay].status.CertificationStatus = "Unknown"
    /\ store[KeyQuay].status.LastPyxisCheckAt = <<>>
    /\ \E i \in 1..Len(refresher.log) :
          refresher.log[i] = [name |-> KeyQuay, did |-> "skipped"]

\* C8: a pass returns an error exactly when the read of the pod failed with
\* an error other than not-found; whatever happens to one container status
\* (no image, unparseable image, failed get, create or update of the
\* record), the loop goes on to the next: a pass that has read the pod
\* returns success after one turn of the loop for each container status.
C8_PassFailsOnlyOnPodRead ==
    \A w \in Workers :
        /\ rec[w].pc = "return" =>
              /\ rec[w].result =
                    IF rec[w].podRead = "error" THEN "error" ELSE "success"
              /\ rec[w].podRead = "ok" =>
                    Len(rec[w].log) = Len(AllStatuses(rec[w].req[1]))
        /\ rec[w].pc \in {"container", "create", "status", "update"} =>
              Len(rec[w].log) = rec[w].idx - 1

\* The pass of pod-b has returned success: its first image did not parse,
\* the get of the record of the second failed, and the third and the
\* fourth container were processed all the same.
C8_Witness ==
    \E w \in Workers :
        /\ rec[w].pc = "return"
        /\ rec[w].req = <<PodB>>
        /\ rec[w].result = "success"
        /\ rec[w].log = <<"unparseable", "get-error", "created", "created">>

\* The references of refs whose pod check did not return not-found.
RECURSIVE NotConfirmedAbsent(_, _)
NotConfirmedAbsent(refs, outcomes) ==
    IF Len(refs) = 0 THEN <<>>
    ELSE (IF outcomes[1] = "notfound" THEN <<>> ELSE <<refs[1]>>)
             \o NotConfirmedAbsent(Tail(refs), Tail(outcomes))

\* C9: a sweep removes a reference exactly when the check of its pod
\* returned not-found: what the sweep writes for a record is the listed
\* references without those, it writes only when there is one of those, and
\* then the write goes through unless the call fails or the record has
\* changed since it was listed.
C9_SweepDropsOnlyNotFound ==
    [][(sweeper.pc = "write" /\ sweeper' # sweeper) =>
          LET listed == sweeper.items[1]
              refs == listed.status.PodReferences
              k == listed.name
              stale == \E i \in 1..Len(refs) : sweeper.outcomes[i] = "notfound"
          IN  /\ Len(sweeper.outcomes) = Len(refs)
              /\ \A x \in DOMAIN store \ {k} : store'[x] = store[x]
              /\ store'[k] # store[k] =>
                    /\ stale
                    /\ store'[k].status.PodReferences =
                          NotConfirmedAbsent(refs, sweeper.outcomes)
              /\ (stale /\ store'[k] = store[k]) =>
                    \/ budget'.faults < budget.faults
                    \/ store[k].rv # listed.rv]_vars

\* A sweep has removed the reference of the deleted pod-a from the record
\* created for it, and kept the one of pod-b.
C9_Witness ==
    /\ CreatedFor(KeyUbi, ImgUbi)
    /\ store[KeyUbi].status.PodReferences = <<RefInit>>
    /\ pods[PodA] = "absent"
    /\ pods[PodB] # "absent"
    /\ budget.sweeps < MaxSweeps

\* The order r.List returned the records in, as the step of the cycle that
\* lists them shows it: the names it logged, then those it has before it
\* (any order, when what the step shows is no order of the records).
ListedOrder ==
    LET logged == Len(refresher'.log)
        fits(o) ==
            \A i \in DOMAIN o :
                /\ i <= logged => o[i] = refresher'.log[i].name
                /\ (i > logged /\ i - logged <= Len(refresher'.items)) =>
                      o[i] = refresher'.items[i - logged].name
    IN  IF \E o \in ListOrders : fits(o)
        THEN CHOOSE o \in ListOrders : fits(o)
        ELSE CHOOSE o \in ListOrders : TRUE

\* The records a step of the cycle has before it, in the order of the
\* list: all of them at an r.List that returns them, none at one that
\* fails, at the loop the one it is at and the rest.
CycleAhead ==
    IF refresher.pc # "idle" THEN refresher.items
    ELSE IF budget'.faults < budget.faults THEN <<>>
    ELSE Listed(ListedOrder)

\* The entries of the cycle's log before a step of the cycle.
CycleLogged == IF refresher.pc = "idle" THEN 0 ELSE Len(refresher.log)

\* The record was checked, and not longer than these ticks before now.
CheckedWithin(cr, ticks, now) ==
    /\ cr.status.LastPyxisCheckAt # <<>>
    /\ now - cr.status.LastPyxisCheckAt[1] <= ticks

DueAt(cr, now) ==
    /\ ClassifyRegistry(cr.spec.Registry) = "RedHat"
    /\ ~CheckedWithin(cr, RefreshInterval, now)

\* The record, as a cycle at time now lists it, is eligible and was never
\* checked or checked more than an hour before.
StaleAt(cr, now) ==
    /\ ClassifyRegistry(cr.spec.Registry) = "RedHat"
    /\ ~CheckedWithin(cr, StaggerWindow, now)

Steps(c) == callers'[c].pc # callers[c].pc

\* The entry of the cache key k in the map, as a read of the map finds it.
EntryOf(k) == IF k \in DOMAIN cache THEN <<cache[k]>> ELSE <<>>

NginxArgs == [namespace |-> "library", repository |-> "nginx"]

\* C12: a lookup that succeeds, with data or with nil for a repository
\* that is not found, leaves an entry that is live; a live entry stays in
\* the map until its expiry unless a later result replaces it or
\* ClearCache empties the map; and a lookup that has read the entry the
\* map holds (as every lookup of callers that come one after another has)
\* and compares it before its expiry returns the entry's result without
\* an invocation of the wrapped client.
C12_CachedResultServed ==
    [][/\ \A c \in Callers :
             /\ (callers[c].pc = "check" /\ Steps(c)
                    /\ callers[c].entry # <<>>
                    /\ callers[c].entry = EntryOf(KeyOf(c))
                    /\ clock < cache[KeyOf(c)].expiresAt) =>
                   /\ callers'[c].pc = "return"
                   /\ callers'[c].data = cache[KeyOf(c)].data
                   /\ callers'[c].err = ""
                   /\ wrapped' = wrapped
                   /\ cache' = cache
             /\ (callers[c].pc = "store" /\ Steps(c)) =>
                   /\ callers'[c].pc = "return"
                   /\ KeyOf(c) \in DOMAIN cache'
                   /\ cache'[KeyOf(c)].data = callers'[c].data
                   /\ clock < cache'[KeyOf(c)].expiresAt
       /\ \A k \in DOMAIN cache :
             clock < cache[k].expiresAt =>
                \/ /\ k \in DOMAIN cache'
                   /\ cache'[k].expiresAt >= cache[k].expiresAt
                   /\ cache'[k] # cache[k] =>
                         \E c \in Callers : callers[c].pc = "store" /\ Steps(c)
                \/ cache' = <<>> /\ callers' = callers /\ budget' = budget]_vars

\* Two lookups of library/nginx have been made and the wrapped client was
\* invoked once: the second got the stored result, nil, from the cache.
C12_Witness ==
    /\ budget.lookups = MaxLookups - 2
    /\ wrapped = [limited |-> 1, base |-> 1]
    /\ \E c \in Callers :
          /\ callers[c].pc = "return"
          /\ callers[c].args = <<NginxArgs>>
          /\ callers[c].entry # <<>>
          /\ callers[c].data = <<>>
          /\ callers[c].err = ""
    /\ \A c \in Callers : callers[c].pc \in {"idle", "return"}

\* C13: a lookup that compares an entry at its expiry or later does not
\* return it: it invokes the wrapped client; no lookup returns an entry
\* that has expired; and a lookup that succeeds puts in the map, in place
\* of the entry of its key, its result with the expiry ttl after the time
\* it stores it, and leaves the other entries.
C13_ExpiredEntryRefetched ==
    [][\A c \in Callers :
          /\ (callers[c].pc = "check" /\ Steps(c)
                 /\ KeyOf(c) \in DOMAIN cache
                 /\ clock >= cache[KeyOf(c)].expiresAt) =>
                /\ callers'[c].pc = "wait"
                /\ wrapped'.limited = wrapped.limited + 1
          /\ (Steps(c) /\ callers'[c].pc = "return" /\ callers'[c].entry # <<>>) =>
                /\ clock < callers'[c].entry[1].expiresAt
                /\ callers[c].pc = "check"
          /\ (callers[c].pc = "store" /\ Steps(c)) =>
                /\ DOMAIN cache' = DOMAIN cache \cup {KeyOf(c)}
                /\ cache'[KeyOf(c)] =
                      [data |-> callers[c].data, expiresAt |-> clock + CacheTTL]
                /\ \A k \in DOMAIN cache \ {KeyOf(c)} : cache'[k] = cache[k]]_vars

\* The entry of library/nginx was fetched, has expired without a sweep,
\* and a second lookup has fetched it again and stored it with a new
\* expiry.
C13_Witness ==
    /\ budget.lookups = MaxLookups - 2
    /\ budget.cleanups = MaxCleanups
    /\ wrapped = [limited |-> 2, base |-> 2]
    /\ clock >= CacheTTL
    /\ DOMAIN cache = {cacheKey("library", "nginx")}
    /\ cache[cacheKey("library", "nginx")].expiresAt = clock + CacheTTL
    /\ \E c, d \in Callers :
          /\ callers[c].pc = "return"
          /\ callers[c].args = <<NginxArgs>>
          /\ callers[c].entry = <<>>
          /\ callers[c].err = ""
          /\ callers[c].data # <<>>
          /\ d # c
          /\ callers[d].pc = "idle"

\* C14: a lookup whose call of the wrapped client fails returns the
\* failure and no data and never writes the map: a step in which a caller
\* returns an error leaves the map as it is, and the map is written only
\* by a caller whose call of the wrapped client returned no error; for
\* callers that come one after another the key then has no live entry, so
\* that the next lookup invokes the wrapped client again.
C14_FailureNotCached ==
    [][\A c \in Callers :
          /\ (Steps(c) /\ callers'[c].pc = "return" /\ callers'[c].err # "") =>
                /\ callers'[c].data = <<>>
                /\ cache' = cache
                /\ callers[c].entry = EntryOf(KeyOf(c)) =>
                      \/ KeyOf(c) \notin DOMAIN cache'
                      \/ clock >= cache'[KeyOf(c)].expiresAt
          /\ (Steps(c) /\ cache' # cache) =>
                /\ callers[c].pc = "store"
                /\ callers[c].err = ""
                /\ callers'[c].err = ""
          /\ (callers[c].pc = "fetch" /\ Steps(c)) =>
                /\ wrapped'.base = wrapped.base + 1
                /\ callers'[c].pc \in {"return", "store"}
                /\ callers'[c].pc = "return" => callers'[c].err = "failed"]_vars

\* Two lookups of library/nginx have each invoked the wrapped client,
\* which failed both times, and the map is empty.
C14_Witness ==
    /\ budget.lookups = MaxLookups - 2
    /\ wrapped = [limited |-> 2, base |-> 2]
    /\ cache = <<>>
    /\ \A c \in Callers :
          /\ callers[c].pc = "return"
          /\ callers[c].args = <<NginxArgs>>
          /\ callers[c].err = "failed"
          /\ ~callers[c].done

\* C15: CleanupExpired removes only entries whose expiry has passed:
\* every entry that a lookup at the time of the sweep would return is
\* in the map after it, unchanged, and the sweep adds and changes nothing.
C15_SweepKeepsLiveEntries ==
    [][budget'.cleanups # budget.cleanups =>
          /\ DOMAIN cache' \subseteq DOMAIN cache
          /\ \A k \in DOMAIN cache' : cache'[k] = cache[k]
          /\ \A k \in DOMAIN cache :
                /\ clock < cache[k].expiresAt => k \in DOMAIN cache'
                /\ k \notin DOMAIN cache' => cache[k].expiresAt < clock]_vars

\* A sweep has run at the last tick over a map with an entry that had
\* expired and one that was live, and the live one is what is left.
C15_Witness ==
    /\ budget.cleanups = MaxCleanups - 1
    /\ clock = MaxHubTime
    /\ wrapped.base = 2
    /\ \A c \in Callers : callers[c].pc = "idle"
    /\ DOMAIN cache = {cacheKey("bitnami", "redis")}
    /\ cache[cacheKey("bitnami", "redis")].expiresAt > clock

\* The calls that have got their token from the limiter.
PassedLimiter ==
    wrapped.base + Cardinality({c \in Callers : callers[c].pc = "fetch"})

\* C16: the calls that have passed the limiter by any time are at most
\* burst and the tokens replenished since the start at the steady rate, so
\* that with no time passing at most burst calls pass; the bucket never
\* holds more than burst tokens; a call passes at once only when the
\* bucket holds a token, and a call that finds none waits for a time later
\* than now and passes no earlier than that time.
C16_BurstBoundsCalls ==
    /\ [](/\ PassedLimiter <= RateBurst + RateLimit * clock
          /\ advance(clock) <= RateBurst)
    /\ [][\A c \in Callers :
             /\ (callers[c].pc = "wait" /\ callers'[c].pc = "fetch") =>
                   /\ advance(clock) >= 1
                   /\ (advance(clock))' = advance(clock) - 1
             /\ (callers[c].pc = "wait" /\ callers'[c].pc = "sleep") =>
                   /\ advance(clock) < 1
                   /\ callers'[c].timeToAct > clock
             /\ (callers[c].pc = "sleep" /\ callers'[c].pc = "fetch") =>
                   callers[c].timeToAct <= clock]_vars

\* No time has passed, burst calls have passed the limiter and another
\* call waits for a token.
C16_Witness ==
    /\ clock = 0
    /\ PassedLimiter = RateBurst
    /\ \E c \in Callers :
          /\ callers[c].pc = "sleep"
          /\ callers[c].timeToAct > clock
          /\ ~callers[c].done

\* C17: a call whose context is cancelled while it waits for its token
\* (before the time its reservation is for), or before it asks for one,
\* returns the cancellation error and no data, and neither the wrapped
\* client is invoked for it nor the map written.
C17_CancelledWaitSkipsClient ==
    [][\A c \in Callers :
          /\ (Parked(c) /\ ~callers[c].done /\ callers'[c].done) =>
                callers'[c].pc \notin {"sleep", "fetch", "store"}
          /\ (Steps(c) /\ ~Parked(c) /\ callers[c].done
                 /\ callers[c].pc \notin {"check", "sleep", "fetch", "store", "return"}) =>
                /\ callers'[c].pc = "return"
                /\ callers'[c].err = "context canceled"
                /\ callers'[c].data = <<>>
                /\ wrapped' = wrapped
                /\ cache' = cache]_vars

\* A call has waited for its token while another had passed, was cancelled
\* and has returned the cancellation error; the base client was invoked
\* for the other call only.
C17_Witness ==
    /\ wrapped = [limited |-> 2, base |-> 1]
    /\ \E c \in Callers :
          /\ callers[c].pc = "return"
          /\ callers[c].done
          /\ callers[c].err = "context canceled"
    /\ limiter.last > 0

\* The pairs of grades of which the second is strictly worse than the
\* first, in the order A (best) to F (worst).
StrictlyWorse ==
    {<<"A", "B">>, <<"A", "C">>, <<"A", "D">>, <<"A", "E">>, <<"A", "F">>,
     <<"B", "C">>, <<"B", "D">>, <<"B", "E">>, <<"B", "F">>,
     <<"C", "D">>, <<"C", "E">>, <<"C", "F">>,
     <<"D", "E">>, <<"D", "F">>,
     <<"E", "F">>}

\* C18: a change of the health grade is flagged as degraded exactly when
\* the old and the new grade are both among A to F and the new one comes
\* later in the order A (best) to F (worst); the same grade, a better one,
\* and a pair with an empty or unrecognized grade are not flagged.
C18_DegradedIffStrictlyWorse ==
    probe.call = "isHealthDegraded" =>
        probe.ret = <<(<<probe.args[1], probe.args[2]>> \in StrictlyWorse)>>

\* The change from C to D has been compared and was flagged.
C18_Witness ==
    /\ probe.call = "isHealthDegraded"
    /\ probe.args = <<"C", "D">>
    /\ probe.ret = <<TRUE>>

\* The registry, repository and digest of a parsed reference.
Triple(ref) == <<ref.Registry, ref.Repository, ref.Digest>>

\* C19: two image identifiers that parse to the same registry, repository
\* and digest get the same record name, whatever scheme prefix and tag
\* they carry.
C19_KeyDependsOnTripleOnly ==
    probe.call = "ReferenceToCRName" =>
        LET a == ParseResult(probe.args[1])
            b == ParseResult(probe.args[2])
        IN  (~a.err /\ ~b.err /\ Triple(a.ref[1]) = Triple(b.ref[1])) =>
                /\ ~probe.ret[1].err
                /\ probe.ret[1] = probe.ret[2]

\* The names of the ubi image with the docker-pullable prefix and of the
\* same image with the docker prefix and a tag have been derived, and are
\* one name.
C19_Witness ==
    /\ probe.call = "ReferenceToCRName"
    /\ probe.args[1] = ImgUbi
    /\ probe.args[2] # ImgUbi
    /\ ~ParseResult(probe.args[2]).err
    /\ ParseResult(probe.args[2]).ref[1].Tag # <<>>
    /\ probe.ret = <<[name |-> KeyUbi, err |-> FALSE],
                     [name |-> KeyUbi, err |-> FALSE]>>

\* The identifier is empty or has no "@" that would set off a digest.
NoDigestSegment(imageID) == imageID = <<>> \/ CountChar(imageID, "@") = 0

\* C20: ParseImageID returns an error and no reference for the empty
\* identifier and for every identifier without an "@"; the turn of the
\* loop of Reconcile for a container status with such an identifier goes
\* on to the next status without a write to the store and without a
\* lookup started; and no record lists a container with such an
\* identifier.
C20_NoDigestNoRecord ==
    /\ [](/\ (probe.call = "ParseImageID" /\ NoDigestSegment(probe.args[1])) =>
                probe.ret = <<[ref |-> <<>>, err |-> TRUE]>>
          /\ \A k \in DOMAIN store :
                \A i \in 1..Len(store[k].status.PodReferences) :
                    ~NoDigestSegment(ImageOfRef(store[k].status.PodReferences[i])))
    /\ [][\A w \in Workers :
             (/\ rec[w].pc = "container"
              /\ NoDigestSegment(CurStatus(w).ImageID)
              /\ rec'[w] # rec[w]) =>
                /\ store' = store
                /\ tasks' = tasks
                /\ rec'[w].pc \in {"container", "return"}
                /\ Len(rec'[w].log) = Len(rec[w].log) + 1
                /\ rec'[w].log[Len(rec'[w].log)] \in {"no-image", "unparseable"}]_vars

\* The parser has failed on an identifier with a tag and no digest, and a
\* pass of pod-b has gone past its first container, whose identifier has
\* a tag and no digest, and has returned.
C20_Witness ==
    /\ probe.call = "ParseImageID"
    /\ probe.args = <<ImgNoDigest>>
    /\ probe.ret[1].err
    /\ \E w \in Workers :
          /\ rec[w].pc = "return"
          /\ rec[w].req = <<PodB>>
          /\ Len(rec[w].log) = Len(AllStatuses(PodB))
          /\ rec[w].log[1] = "unparseable"

\* C21 as claimed: the fullReference of a parsed reference is the
\* identifier that was parsed, with the pull-scheme prefix it carried.
C21_FullReferenceVerbatim ==
    (probe.call = "ParseImageID" /\ ~probe.ret[1].err) =>
        probe.ret[1].ref[1].FullReference = probe.args[1]

\* The pull-scheme prefixes the parser removes: none, either, or
\* docker-pullable:// followed by docker://.
SchemePrefixes ==
    {<<>>, PrefixDockerPullable, PrefixDocker,
     PrefixDockerPullable \o PrefixDocker}

\* C21: the fullReference of a parsed reference is the identifier without
\* its pull-scheme prefix: the identifier is a prefix docker-pullable://
\* or docker:// (or none, or the one after the other) followed by the
\* fullReference, a leading docker-pullable:// of the identifier is among
\* what was removed, and the fullReference does not begin with docker://;
\* so it is the identifier verbatim exactly when that carries no prefix.
C21_FullReferenceWithoutScheme ==
    (probe.call = "ParseImageID" /\ ~probe.ret[1].err) =>
        LET imageID == probe.args[1]
            full == probe.ret[1].ref[1].FullReference
        IN  /\ \E p \in SchemePrefixes :
                  /\ imageID = p \o full
                  /\ HasPrefix(imageID, PrefixDockerPullable) =>
                        HasPrefix(p, PrefixDockerPullable)
            /\ ~HasPrefix(full, PrefixDocker)
            /\ (full = imageID) <=>
                  (/\ ~HasPrefix(imageID, PrefixDockerPullable)
                   /\ ~HasPrefix(imageID, PrefixDocker))

\* The ubi image was parsed with its docker-pullable:// prefix, and the
\* fullReference is what follows the prefix.
C21_Witness ==
    /\ probe.call = "ParseImageID"
    /\ probe.args = <<ImgUbi>>
    /\ ~probe.ret[1].err
    /\ PrefixDockerPullable \o probe.ret[1].ref[1].FullReference = ImgUbi

\* C22: no step of the reconciler, of a write-back or of the sweep takes a
\* record out of the store: the records of the store before a step are
\* records of the store after it; and a status write of the sweep that
\* leaves a record without pod references leaves the record in the store,
\* with the empty list.
C22_RecordsNeverDeleted ==
    [][/\ DOMAIN store \subseteq DOMAIN store'
       /\ (/\ sweeper.pc = "write"
           /\ sweeper' # sweeper
           /\ store' # store
           /\ sweeper.validRefs = <<>>) =>
             LET k == sweeper.items[1].name
             IN  /\ k \in DOMAIN store'
                 /\ store'[k].status.PodReferences = <<>>
                 /\ store'[k].spec = store[k].spec]_vars

\* The sweep has written the record of the ubi image, whose one pod is
\* gone, with an empty list of references, and the record is in the store.
C22_Witness ==
    /\ sweeper.pc = "idle"
    /\ budget.sweeps < MaxSweeps
    /\ KeyUbi \in DOMAIN store
    /\ store[KeyUbi].status.CertificationStatus # ""
    /\ store[KeyUbi].status.PodReferences = <<>>
    /\ pods[PodA] = "absent"

\* The lookup of record k has been started and has not returned.
LookupPending(k) == k \in DOMAIN tasks /\ tasks[k].pc = "lookup"

\* C23: a pass that has created a record and started its lookup returns,
\* and the passes that are still to come are made, also when no lookup
\* ever returns; and the step that starts the lookup is a step of the pass
\* that goes on to the next container status or returns, while the lookup
\* has not returned.
C23_PassDoesNotWaitForLookup ==
    /\ \A w \in Workers :
          (rec[w].pc \in {"create", "status"}) ~> (rec[w].pc = "return")
    /\ (\E k \in DOMAIN tasks : LookupPending(k)) ~>
          (/\ budget.passes = 0
           /\ \A w \in Workers : rec[w].pc \in {"idle", "return"})
    /\ [][\A k \in DOMAIN tasks' \ DOMAIN tasks :
             /\ LookupPending(k)'
             /\ \E w \in Workers :
                   /\ rec[w].pc = "status"
                   /\ rec'[w].pc \in {"container", "return"}]_vars

\* The pass of pod-a that created the record of the ubi image has
\* returned and the pass of pod-b after it has returned too, while the
\* lookup for the ubi image has not returned.
C23_Witness ==
    /\ LookupPending(KeyUbi)
    /\ budget.passes = 0
    /\ KeyQuay \in DOMAIN store
    /\ \E w \in Workers :
          /\ rec[w].pc = "return"
          /\ rec[w].req = <<PodB>>
          /\ rec[w].result = "success"

\* Some record holds a reference to a container of pod p.
Referenced(p) ==
    \E k \in DOMAIN store :
        \E i \in 1..Len(store[k].status.PodReferences) :
            /\ store[k].status.PodReferences[i].Namespace = p.Namespace
            /\ store[k].status.PodReferences[i].Name = p.Name

\* C24: whenever a pod is deleted and no pod is created or changed any
\* more, the sweeps that follow lead to a store in which no record holds a
\* reference to the pod, and to a time from which on none ever does.
C24_DeletedPodDereferenced ==
    \A p \in PodKeys :
        /\ (pods[p] = "absent" /\ budget.podEvents = 0) ~> ~Referenced(p)
        /\ (pods[p] = "absent" /\ budget.podEvents = 0) ~> []~Referenced(p)

\* pod-a is gone for good after its pass recorded the ubi image, one call
\* has failed, and no record holds a reference to pod-a any more.
C24_Witness ==
    /\ pods[PodA] = "absent"
    /\ budget.podEvents = 0
    /\ budget.faults = 0
    /\ KeyUbi \in DOMAIN store
    /\ store[KeyUbi].status.CertificationStatus # ""
    /\ ~Referenced(PodA)
    /\ sweeper.pc = "idle"

\* The pass worker w is in has created record k, or is creating it.
InCreatingPass(w, k) ==
    /\ rec[w].pc \in {"container", "create", "status", "update"}
    /\ \E i \in 1..rec[w].idx :
          LET key == RecordKey(AllStatuses(rec[w].req[1])[i].ImageID)
          IN  /\ ~key.err
              /\ key.name = k
              /\ i = rec[w].idx => rec[w].pc = "status"
              /\ i < rec[w].idx => rec[w].log[i] \in {"created", "status-error"}

\* C25: once the pass that created a record has finished, the registryType
\* of the record is the classification of its registry hostname, in every
\* state from then on.
C25_RegistryTypeClassified ==
    \A k \in DOMAIN store :
        (\A w \in Workers : ~InCreatingPass(w, k)) =>
            store[k].status.RegistryType = ClassifyRegistry(store[k].spec.Registry)

\* Record k after the step differs from k before it in these fields of the
\* status at most (and in its resource version).
OnlyStatusFieldsChange(k, fields) ==
    /\ k \in DOMAIN store'
    /\ store'[k].name = store[k].name
    /\ store'[k].spec = store[k].spec
    /\ store'[k].annotations = store[k].annotations
    /\ \A f \in DOMAIN store[k].status \ fields :
          store'[k].status[f] = store[k].status[f]

\* C26: the status write of updatePodReferences changes the references and
\* the last-seen time of its record and nothing else, and the status write
\* of a sweep changes the references of its record and nothing else:
\* identity fields, registryType, certification status, payload and
\* last-check time are as before, and so is every other record. (On a
\* record whose status was never written the write of updatePodReferences
\* also stores the defaults of registryType and certification status.)
C26_ReferenceWritesKeepTheRest ==
    [][/\ \A w \in Workers :
             (rec[w].pc = "update" /\ rec'[w] # rec[w]) =>
                 /\ OnlyStatusFieldsChange(CurName(w), {"PodReferences", "LastSeenAt"})
                 /\ \A k \in DOMAIN store \ {CurName(w)} : store'[k] = store[k]
       /\ (sweeper.pc = "write" /\ sweeper' # sweeper) =>
             /\ OnlyStatusFieldsChange(sweeper.items[1].name, {"PodReferences"})
             /\ \A k \in DOMAIN store \ {sweeper.items[1].name} :
                   store'[k] = store[k]]_vars

\* Worker w comes to the status write of updatePodReferences by the r.Get
\* of its record, holding what the store holds.
ReferenceAddFromFreshRead(w) ==
    (rec'[w].pc = "update" /\ rec'[w] # rec[w]) =>
        /\ rec[w].pc = "container"
        /\ store' = store
        /\ rec'[w].cr = <<store[CurName(w)']>>

\* The discovery write-back of record k comes to its status write by the
\* r.Get of the record, holding what the store holds but for the status
\* fields it sets.
WriteBackFromFreshRead(k) ==
    (/\ tasks'[k].pc = "write"
     /\ k \in DOMAIN tasks => tasks[k] # tasks'[k]) =>
        /\ k \in DOMAIN tasks
        /\ tasks[k].pc = "lookup"
        /\ store' = store
        /\ [tasks'[k].cr[1] EXCEPT !.status = store[k].status] = store[k]

\* The sweeper comes to a status write with no call since it read the
\* record.
PruneFromFreshRead ==
    (/\ sweeper.pc = "write"
     /\ sweeper' # sweeper
     /\ Len(sweeper.validRefs) # Len(sweeper.items[1].status.PodReferences)) =>
        sweeper.outcomes = <<>>

\* C27: every status write to a record its writer did not just create is
\* made from the copy the writer read from the store in its call before:
\* the reference add of a pass, the status write of a write-back, and the
\* prune of a sweep.
C27_WritesFromFreshRead ==
    [][/\ \A w \in Workers : ReferenceAddFromFreshRead(w)
       /\ \A k \in DOMAIN tasks' : WriteBackFromFreshRead(k)
       /\ PruneFromFreshRead]_vars

\* C28: a reference that a record holds is in the record after every step,
\* but for the status write of a sweep of that record whose check of the
\* pod of the reference returned not-found: no reference add, write-back
\* or sweep that read the record before the reference was added takes it
\* away.
C28_ReferenceLostOnlyToNotFound ==
    [][\A k \in DOMAIN store :
          /\ k \in DOMAIN store'
          /\ \A i \in 1..Len(store[k].status.PodReferences) :
                LET podRef == store[k].status.PodReferences[i]
                    listed == sweeper.items[1].status.PodReferences
                IN  ~Tracked(store'[k].status.PodReferences, podRef) =>
                        /\ sweeper.pc = "write"
                        /\ sweeper' # sweeper
                        /\ sweeper.items[1].name = k
                        /\ \E j \in 1..Len(listed) :
                              /\ listed[j] = podRef
                              /\ sweeper.outcomes[j] = "notfound"]_vars

\* A sweep that listed the record of the ubi image with the reference of
\* pod-a alone has found pod-a gone and is about to write the record
\* without references, while a pass of pod-b has added the reference of
\* its init container to the record in the store.
C28_Witness ==
    /\ sweeper.pc = "write"
    /\ sweeper.items[1].name = KeyUbi
    /\ sweeper.items[1].status.PodReferences = <<RefMain>>
    /\ sweeper.validRefs = <<>>
    /\ store[KeyUbi].status.PodReferences = <<RefMain, RefInit>>
    /\ store[KeyUbi].rv > sweeper.items[1].rv

\* The record of the i-th container status of pod p holds the reference of
\* that container.
Recorded(p, i) ==
    LET cs == AllStatuses(p)[i]
        key == RecordKey(cs.ImageID)
    IN  /\ key.name \in DOMAIN store
        /\ Tracked(store[key.name].status.PodReferences, PodRefOf(p, cs))

\* C29 as claimed: when a pass that has read its pod Running or Pending
\* has returned success, the record of every container status whose
\* imageID parses exists and holds the reference of that container.
C29_SuccessMeansRecorded ==
    \A w \in Workers :
        (rec[w].pc = "return" /\ rec[w].result = "success"
            /\ rec[w].podRead = "ok") =>
            \A i \in 1..Len(AllStatuses(rec[w].req[1])) :
                ~RecordKey(AllStatuses(rec[w].req[1])[i].ImageID).err =>
                    Recorded(rec[w].req[1], i)

\* C29: when a pass that has read its pod Running or Pending has returned
\* success, every container status whose imageID parses either had its
\* write accepted in the pass (the create and first status write, or the
\* reference write), and then its record exists and holds its reference,
\* or had a call fail or its write rejected, which the pass has logged.
C29_AcceptedWritesRecorded ==
    \A w \in Workers :
        (rec[w].pc = "return" /\ rec[w].result = "success"
            /\ rec[w].podRead = "ok") =>
            \A i \in 1..Len(AllStatuses(rec[w].req[1])) :
                ~RecordKey(AllStatuses(rec[w].req[1])[i].ImageID).err =>
                    IF rec[w].log[i] \in {"created", "updated"}
                    THEN Recorded(rec[w].req[1], i)
                    ELSE rec[w].log[i] \in {"get-error", "create-error",
                                            "status-error", "update-error"}

\* The pass of pod-b has returned success with no call failed: the
\* reference of its app container is in the record it created, and the
\* reference write for its init container was rejected, the write-back of
\* the record having come between the read and the write.
C29_Witness ==
    \E w \in Workers :
        /\ rec[w].pc = "return"
        /\ rec[w].req = <<PodB>>
        /\ rec[w].result = "success"
        /\ rec[w].log = <<"unparseable", "created", "updated", "update-error">>
        /\ budget.faults = MaxFaults
        /\ Recorded(PodB, 2)
        /\ ~Recorded(PodB, 4)

\* C30: a lookup for record k is started only in the step in which the
\* worker that created k has its first status write of k accepted; before
\* that step k has no status and no lookup, after it k has its first
\* status for good, so that no second lookup is started for k; and a step
\* of a pass on a record it found in the store starts none.
C30_LookupStartedOnceByCreator ==
    [][/\ \A k \in DOMAIN tasks' \ DOMAIN tasks :
             /\ LookupPending(k)'
             /\ \E w \in Workers :
                   /\ rec[w].pc = "status"
                   /\ CurName(w) = k
                   /\ rec[w].cr = <<NewObject(k, CurRef(w))>>
                   /\ rec'[w].log = Append(rec[w].log, "created")
             /\ store[k].status.FirstSeenAt = <<>>
             /\ store'[k].status.FirstSeenAt # <<>>
             /\ store'[k].status.CertificationStatus = "Unknown"
       /\ \A w \in Workers :
             /\ (rec[w].pc = "status" /\ rec'[w] # rec[w]) =>
                   /\ CurName(w) \notin DOMAIN tasks
                   /\ store[CurName(w)].status.FirstSeenAt = <<>>
             /\ (rec[w].pc \in {"idle", "container", "create", "update"}
                    /\ rec'[w] # rec[w]) => DOMAIN tasks' = DOMAIN tasks
       /\ \A k \in DOMAIN store :
             store[k].status.FirstSeenAt # <<>> =>
                 /\ k \in DOMAIN store'
                 /\ store'[k].status.FirstSeenAt # <<>>]_vars

\* The lookup started when the record of the ubi image was created has
\* not returned, and a second pass of pod-a has found the record and
\* written its reference again.
C30_Witness ==
    /\ LookupPending(KeyUbi)
    /\ store[KeyUbi].status.PodReferences = <<RefMain>>
    /\ \E w \in Workers :
          /\ rec[w].pc = "return"
          /\ rec[w].req = <<PodA>>
          /\ rec[w].log = <<"updated", "no-image">>

(* ------------------------- enrichment write-back ----------------------- *)

\* The lookup of the write-back returned data with CVE identifiers.
CarriesCVEs(t) ==
    /\ ~t.err
    /\ t.certData # <<>>
    /\ t.certData[1].CVEs # <<>>

\* The write-back t has become u in a step: its steps in order. The second
\* read follows the status write of data with CVE identifiers, whatever
\* the store did with that write, and of no other data; the annotation
\* write follows the second read, on the copy that read took from the
\* store, with the identifiers joined.
WriteBackInOrder(t, u) ==
    /\ u.pc \in {"getAnnotation", "writeAnnotation"} => CarriesCVEs(u)
    /\ (u.pc = "getAnnotation" /\ u # t) => t.pc = "write"
    /\ (t.pc = "write" /\ u # t /\ CarriesCVEs(t)) => u.pc = "getAnnotation"
    /\ (u.pc = "writeAnnotation" /\ u # t) =>
          /\ t.pc = "getAnnotation"
          /\ store' = store
          /\ u.cr = <<[store[t.crName] EXCEPT
                         !.annotations = <<Join(t.certData[1].CVEs)>>]>>

\* The annotation of record k changes in the step: a write-back of k with
\* CVE identifiers issues its annotation write.
AnnotationWrittenBy(k, t) ==
    /\ t.crName = k
    /\ t.pc = "writeAnnotation"
    /\ CarriesCVEs(t)
    /\ store'[k].annotations = t.cr[1].annotations

\* C31: a write-back whose data carries CVE identifiers issues the write
\* of the CVE annotation after its status write, as a write of its own on
\* a copy of the record it reads after the status write; a write-back
\* whose lookup failed, found nothing or returned data without CVE
\* identifiers issues no annotation write.
C31_AnnotationAfterStatusWrite ==
    [][/\ \A k \in DOMAIN tasks \cap DOMAIN tasks' :
             WriteBackInOrder(tasks[k], tasks'[k])
       /\ (refresher.pc = "run" /\ refresher'.pc = "run"
              /\ Len(refresher'.items) = Len(refresher.items)) =>
             WriteBackInOrder(refresher.wb[1], refresher'.wb[1])
       /\ \A k \in DOMAIN tasks' \ DOMAIN tasks : tasks'[k].pc = "lookup"
       /\ \A k \in DOMAIN tasks \ DOMAIN tasks' :
             tasks[k].pc = "write" => ~CarriesCVEs(tasks[k])
       /\ \A k \in DOMAIN store :
             store'[k].annotations # store[k].annotations =>
                 \/ k \in DOMAIN tasks /\ tasks'# tasks
                       /\ AnnotationWrittenBy(k, tasks[k])
                 \/ refresher.pc = "run" /\ refresher' # refresher
                       /\ AnnotationWrittenBy(k, refresher.wb[1])]_vars

\* The discovery write-back of the ubi image has had its status write
\* accepted and has read the record again: it is about to write the CVE
\* identifier into the annotation, which is still empty.
C31_Witness ==
    /\ KeyUbi \in DOMAIN tasks
    /\ tasks[KeyUbi].pc = "writeAnnotation"
    /\ tasks[KeyUbi].cr[1].annotations = <<"CVE-2024-0001">>
    /\ tasks[KeyUbi].cr[1].status.CertificationStatus = "Certified"
    /\ tasks[KeyUbi].cr[1].status.PyxisData[1].HealthIndex = "B"
    /\ store[KeyUbi].annotations = <<>>

\* A write-back of record k is between its status write and the end of
\* its annotation write.
AnnotationPending(k) ==
    \/ /\ k \in DOMAIN tasks
       /\ tasks[k].pc \in {"getAnnotation", "writeAnnotation"}
    \/ /\ refresher.pc = "run"
       /\ refresher.wb[1].crName = k
       /\ refresher.wb[1].pc \in {"getAnnotation", "writeAnnotation"}

\* C32: the CVE annotation of a record is that of the data of its latest
\* accepted enrichment: whenever no write-back of the record is between
\* its status write and its annotation write, a record with a CVE
\* annotation has the payload of data with exactly these identifiers, so
\* it keeps no identifiers that its latest data does not report and none
\* from a write-back whose status write was rejected.
C32_AnnotationOfLatestData ==
    \A k \in DOMAIN store :
        (store[k].annotations # <<>> /\ ~AnnotationPending(k)) =>
            /\ store[k].status.PyxisData # <<>>
            /\ \A d \in PlainData \cup RichData :
                  PyxisDataOf(d) = store[k].status.PyxisData[1] =>
                      store[k].annotations = <<Join(d.CVEs)>>

\* A write-back of record k with data has had its status write accepted
\* in this step.
EnrichedWithData(k, t) ==
    /\ t.crName = k
    /\ t.pc = "write"
    /\ ~t.err
    /\ t.certData # <<>>
    /\ store'[k].status = t.cr[1].status
    /\ store'[k].rv # store[k].rv

\* The data of the write-back whose status write on record k is accepted
\* in this step, if there is one.
EnrichingData(k) ==
    {tasks[j].certData[1] : j \in {i \in DOMAIN tasks : EnrichedWithData(k, tasks[i])}}
        \cup (IF refresher.pc = "run" /\ EnrichedWithData(k, refresher.wb[1])
                 /\ refresher' # refresher
              THEN {refresher.wb[1].certData[1]} ELSE {})

\* C33: after every accepted status write of a write-back with data the
\* record has days-until-EOL exactly when the payload has an EOL date, and
\* an image age exactly when the payload has a publish date: no derived
\* value of an earlier payload is left when the new data lacks the date.
C33_DerivedFieldsFollowPayload ==
    [][\A k \in DOMAIN store :
          EnrichingData(k) # {} =>
              LET status == store'[k].status
              IN  /\ (status.DaysUntilEOL # <<>>) <=>
                         (status.PyxisData[1].EOLDate # <<>>)
                  /\ (status.ImageAge # "") <=>
                         (status.PyxisData[1].PublishedAt # <<>>)]_vars

\* The time a timestamp string of the data stands for, if it has one.
TimeOf(s) == IF s # <<>> /\ s[1].ok THEN <<s[1].t>> ELSE <<>>

\* C34: an accepted status write of a write-back with data leaves in the
\* record a payload whose every field comes from that data: publisher,
\* grade, publish date, vulnerability counts and EOL date are those of the
\* data, and a field the data leaves empty is empty in the record whatever
\* the record held before.
C34_PayloadFromNewDataAlone ==
    [][\A k \in DOMAIN store :
          \A d \in EnrichingData(k) :
              LET payload == store'[k].status.PyxisData
              IN  /\ Len(payload) = 1
                  /\ payload[1].Publisher = d.Publisher
                  /\ payload[1].HealthIndex = d.HealthIndex
                  /\ payload[1].PublishedAt = TimeOf(d.PublishedAt)
                  /\ payload[1].EOLDate = TimeOf(d.EOLDate)
                  /\ payload[1].Vulnerabilities = d.Vulnerabilities
                  /\ DOMAIN payload[1] =
                        {"Publisher", "HealthIndex", "PublishedAt",
                         "EOLDate", "Vulnerabilities"}]_vars

\* The record of the ubi image was enriched with data that has a
\* publisher and both dates, and then with the data that has CVE
\* identifiers and none of these: its payload has no publisher and no
\* date, beside the image age of the first enrichment.
C34_Witness ==
    /\ KeyUbi \in DOMAIN store
    /\ store[KeyUbi].status.PyxisData # <<>>
    /\ store[KeyUbi].status.PyxisData[1].Publisher = ""
    /\ store[KeyUbi].status.PyxisData[1].PublishedAt = <<>>
    /\ store[KeyUbi].status.PyxisData[1].EOLDate = <<>>
    /\ store[KeyUbi].status.PyxisData[1].Vulnerabilities # <<>>
    /\ store[KeyUbi].status.ImageAge # ""

\* C35: a record whose status is NotCertified carries no payload: the
\* write-back that sets NotCertified on a record that was Certified
\* clears the data of the earlier result.
C35_NotCertifiedHasNoPayload ==
    \A k \in DOMAIN store :
        store[k].status.CertificationStatus = "NotCertified" =>
            store[k].status.PyxisData = <<>>

\* The write-back t has read the record and become u, at the time now:
\* it has emitted the EOL notice exactly when its data has an EOL date
\* that is from lo to hi ticks away.
NoticeForEOLWithin(t, u, now, lo, hi) ==
    (t.pc = "lookup" /\ u.pc = "write") =>
        ("EOLApproaching" \in u.events <=>
            /\ ~u.err
            /\ u.certData # <<>>
            /\ TimeOf(u.certData[1].EOLDate) # <<>>
            /\ TimeOf(u.certData[1].EOLDate)[1] - now >= lo
            /\ TimeOf(u.certData[1].EOLDate)[1] - now <= hi)

\* Every write-back that reads its record in the step emits the EOL notice
\* exactly for an EOL date from lo to hi ticks away.
NoticesForEOLWithin(lo, hi) ==
    /\ \A k \in DOMAIN tasks \cap DOMAIN tasks' :
          NoticeForEOLWithin(tasks[k], tasks'[k], clock, lo, hi)
    /\ (refresher.pc = "run" /\ refresher'.pc = "run"
          /\ Len(refresher'.items) = Len(refresher.items)) =>
          NoticeForEOLWithin(refresher.wb[1], refresher'.wb[1], clock, lo, hi)

\* C36 as stated: a write-back emits the EOL notice exactly when the EOL
\* date of its data lies between the time of the enrichment and 90 days
\* after it, and none for a date that has passed or is more than 90 days
\* away.
C36_NoticeForEOLInNinetyDays ==
    [][NoticesForEOLWithin(0, 90 * TicksPerDay)]_vars

\* C36: a write-back emits the EOL notice exactly when the whole days to
\* the EOL date, cut toward zero, are between 0 and 90: for an EOL date
\* that lies less than a day back up to less than 91 days ahead.
C36_NoticeForWholeDaysToEOL ==
    [][NoticesForEOLWithin(1 - TicksPerDay, 91 * TicksPerDay - 1)]_vars

\* A write-back at the time 1 has data whose EOL date was 23 hours before,
\* less than a day, and has emitted the EOL notice.
C36_Witness ==
    /\ clock = 1
    /\ \E k \in DOMAIN tasks :
          /\ tasks[k].pc = "write"
          /\ tasks[k].certData # <<>>
          /\ tasks[k].certData[1].EOLDate = <<[ok |-> TRUE, t |-> 2 - TicksPerDay]>>
          /\ tasks[k].cr[1].status.LastPyxisCheckAt = <<1>>
          /\ tasks[k].cr[1].status.DaysUntilEOL = <<0>>
          /\ "EOLApproaching" \in tasks[k].events

(* ----------------------- the client chain, again ----------------------- *)

\* The caller is in a call that missed the cache and has not returned.
InMiss(c) == callers[c].pc \in {"wait", "sleep", "cancelled", "fetch", "store"}

\* C37: the decorator does not join concurrent misses. A caller that has
\* read no live entry goes on to the wrapped client, also while other
\* callers are in a miss of the same key, so the wrapped client has been
\* invoked at least once for every caller in a miss; and each caller that
\* gets a result stores it over whatever the map holds for the key, so
\* the entry left is that of the caller that stored last.
C37_NoSingleFlight ==
    [][\A c \in Callers :
          /\ (callers[c].pc = "check" /\ Steps(c)
                 /\ \/ callers[c].entry = <<>>
                    \/ clock >= callers[c].entry[1].expiresAt) =>
                /\ callers'[c].pc = "wait"
                /\ wrapped'.limited = wrapped.limited + 1
                /\ wrapped'.limited >= Cardinality({d \in Callers : InMiss(d)'})
          /\ (callers[c].pc = "store" /\ Steps(c)) =>
                /\ KeyOf(c) \in DOMAIN cache'
                /\ cache'[KeyOf(c)].data = callers[c].data
                /\ callers'[c].data = callers[c].data]_vars

\* Two callers looked up library/nginx while the map had no entry for it
\* and each invoked the wrapped client: the first got the repository's
\* info, stored it and returned; the second, which had read the map
\* before that, got nil and is about to store it over the live entry of
\* the first.
C37_Witness ==
    /\ budget.lookups = MaxLookups - 2
    /\ wrapped = [limited |-> 2, base |-> 2]
    /\ cacheKey("library", "nginx") \in DOMAIN cache
    /\ cache[cacheKey("library", "nginx")].data # <<>>
    /\ clock < cache[cacheKey("library", "nginx")].expiresAt
    /\ \E c, d \in Callers :
          /\ c # d
          /\ callers[c].pc = "return"
          /\ callers[c].args = <<NginxArgs>>
          /\ callers[c].entry = <<>>
          /\ callers[c].data = cache[cacheKey("library", "nginx")].data
          /\ callers[d].pc = "store"
          /\ callers[d].args = <<NginxArgs>>
          /\ callers[d].entry = <<>>
          /\ callers[d].data = <<>>

\* C38: the cache is in front of the limiter. A lookup that is served
\* from the cache returns in the step that compares the entry, without a
\* reservation and without a wait, whatever the bucket holds; the limiter
\* changes only in a step of a caller in a miss, and a caller comes to the
\* base client only from the limiter, where it waits for its token or
\* finds it, and takes it.
C38_HitsBypassLimiter ==
    [][/\ \A c \in Callers :
             /\ (Steps(c) /\ callers'[c].pc = "return"
                    /\ callers'[c].entry # <<>>) =>
                   /\ callers[c].pc = "check"
                   /\ limiter' = limiter
                   /\ wrapped' = wrapped
             /\ (Steps(c) /\ callers'[c].pc = "fetch") =>
                   \/ /\ callers[c].pc = "wait"
                      /\ advance(clock) >= 1
                      /\ limiter'.tokens = advance(clock) - 1
                   \/ /\ callers[c].pc = "sleep"
                      /\ callers[c].timeToAct <= clock
             /\ (Steps(c) /\ callers'[c].pc = "sleep") =>
                   /\ callers[c].pc = "wait"
                   /\ advance(clock) < 1
                   /\ limiter'.tokens = advance(clock) - 1
       /\ limiter' # limiter =>
             \E c \in Callers :
                 /\ callers[c].pc \in {"wait", "cancelled"}
                 /\ Steps(c)]_vars

\* One lookup has missed and taken the only token, and a second lookup of
\* the same repository has been served from the cache with the bucket
\* still empty.
C38_Witness ==
    /\ budget.lookups = MaxLookups - 2
    /\ wrapped = [limited |-> 1, base |-> 1]
    /\ advance(clock) < 1
    /\ \E c \in Callers :
          /\ callers[c].pc = "return"
          /\ callers[c].entry # <<>>
          /\ callers[c].err = ""
          /\ callers[c].data = callers[c].entry[1].data

\* C39: a cache hit returns what the wrapped client returned for the same
\* arguments, so lookups with different arguments never share an entry:
\* when two lookups have been made and the wrapped client was invoked for
\* one of them alone, the caller that was served from the cache passed
\* the namespace and the repository of the caller whose result was
\* stored.
C39_EntryPerArguments ==
    \A c, d \in Callers :
        (/\ budget.lookups = MaxLookups - 2
         /\ wrapped.base = 1
         /\ callers[d].pc = "return"
         /\ callers[d].entry = <<>>
         /\ callers[d].err = ""
         /\ callers[c].pc = "return"
         /\ callers[c].entry # <<>>) =>
            /\ callers[c].data = callers[d].data
            /\ callers[c].args = callers[d].args

(* -------------------------- the loops' context ------------------------- *)

\* The sweeper loop, the cache sweep loop and the refresh loop.
Loops == {"sweeper", "cache", "refresh"}

\* The goroutine of the loop is in a select: it has not returned and is
\* in no sweep or cycle.
InSelect(l) ==
    /\ loops[l] # "exited"
    /\ l = "sweeper" => sweeper.pc = "idle"
    /\ l = "refresh" => refresher.pc = "idle"

\* No goroutine of a loop is left.
AllLoopsExited == \A l \in Loops : loops[l] = "exited"

\* The loop l returns in this step.
Exits(l) == loops[l] # "exited" /\ loops'[l] = "exited"

\* C40: once the context of the loops is cancelled, the sweeper loop, the
\* cache sweep loop and the refresh loop, the last also from its startup
\* jitter, each return in the end, with no ticker firing. A loop returns
\* from its select, on the cancelled context, in a step that starts no
\* sweep and no cycle and writes nothing; and a loop that has returned
\* runs no further sweep or cycle, whatever work is left.
C40_CancelledLoopsExit ==
    /\ loops.done ~> AllLoopsExited
    /\ [][/\ \A l \in Loops :
                /\ Exits(l) =>
                      /\ loops.done
                      /\ InSelect(l)
                      /\ UNCHANGED <<clock, controller, budget, dockerhub>>
                /\ loops[l] = "exited" => loops'[l] = "exited"
          /\ loops.sweeper = "exited" => sweeper' = sweeper
          /\ loops.refresh = "exited" => refresher' = refresher
          /\ loops.cache = "exited" => budget'.cleanups = budget.cleanups]_vars

\* The context was cancelled and the three loops have returned: the
\* refresh loop from its startup jitter, before any cycle, the cache loop
\* with its ticker still to fire, and the sweeper loop while the record of
\* the ubi image still holds the reference of pod-a, which is gone, and a
\* sweep is due.
C40_Witness ==
    /\ loops.done
    /\ AllLoopsExited
    /\ budget.cycles = MaxCycles
    /\ budget.cleanups = MaxCleanups
    /\ budget.sweeps > 0
    /\ pods[PodA] = "absent"
    /\ KeyUbi \in DOMAIN store
    /\ Tracked(store[KeyUbi].status.PodReferences, RefMain)
====
